---- MODULE Spec2Model ----
(***************************************************************************)
(* Crash-dump capture and restore of the SBCL runtime (src/runtime/        *)
(* monitor.c): save_cmd / save_gc_crashdump in the dumping process and     *)
(* load_gc_crashdump in the ldb process that reads the image.              *)
(*                                                                         *)
(* Build modelled: x86-64, sb-thread, immobile space, C stack is the       *)
(* control stack (it grows downward).                                      *)
(*                                                                         *)
(* Unit of storage: one cell.  A cell stands for one machine word, one     *)
(* byte of a region or one table entry; a file is a sequence of cells and  *)
(* every read or write transfers a whole number of cells.  Every cell is   *)
(* a natural number.                                                       *)
(***************************************************************************)
EXTENDS Integers, Sequences, FiniteSets, TLC

\* ------------------------------------------------------------------ bounds
MaxThreads == 2
MaxPages == 2
MaxMutations == 2
MaxStack == 1
GENCGC_PAGE_BYTES == 2
FIXEDOBJ_SPACE_SIZE == 1
VARYOBJ_SPACE_SIZE == 2

\* ------------------------------------------------------- program constants
SizeofCrashPreamble == 120
SizeofCrashThreadPreamble == 32
CRASH_PREAMBLE_SIGNATURE == SizeofCrashPreamble * 65536 + SizeofCrashThreadPreamble
TrailingSignature == <<83, 66, 46, 67, 114, 97, 115, 104>>
GENCGC_CARD_BYTES == 512
STATIC_SPACE_START == 16
DynamicSpaceStartAtSave == 32
FixedobjSpaceStartAtSave == 48
VaryobjSpaceStartAtSave == 56
SizeofOsContext == 2
ThreadStructWords == 2
OPEN_REGION_PAGE_FLAG == 8
IMMOBILE_CARD_BYTES == 1
LispPackageVectorAtSave == 77
SbSprofEnabledAtSave == 1
PinAllDynamicSpaceCodeAtSave == 0
CardTableNBitsAtSave == 1

TotalNPagesFixedobj == FIXEDOBJ_SPACE_SIZE \div IMMOBILE_CARD_BYTES
TotalNPagesVaryobj == VARYOBJ_SPACE_SIZE \div IMMOBILE_CARD_BYTES
\* ALIGN_UP(total_npages, 32) / 32
NBitmapElts == (((TotalNPagesVaryobj + 31) \div 32) * 32) \div 32

Byte == {0, 1}

Max(a, b) == IF a >= b THEN a ELSE b
Min(a, b) == IF a <= b THEN a ELSE b

Zeros(n) == [k \in 1..n |-> 0]

\* The first n cells of s (all of s if it is shorter).
Take(s, n) == SubSeq(s, 1, Min(n, Len(s)))

make_fixnum(n) == 2 * n
fixnum_value(v) == v \div 2

\* Index (1-based) of the thread-local cell of the symbol
\* *free-interrupt-context-index*: the first slot after struct thread.
FREE_INTERRUPT_CONTEXT_INDEX == ThreadStructWords + 1

VARIABLES
    \* ---- the dumping process
    static_space,              \* live cells of static space (up to the free pointer)
    dynamic_space,             \* cells of the pages below next_free_page
    next_free_page,
    page_table,                \* one cell per page below next_free_page
    gc_card_table_nbits,
    gc_card_mark,              \* 1 + gc_card_table_mask cells
    fixedobj_space,            \* live cells of the fixed-size object space
    fixedobj_pages,
    varyobj_space,             \* live cells of the variable-size object space
    varyobj_page_touched_bits,
    varyobj_pages,
    threads,                   \* all_threads of the dumping process, head first
    collector_region,          \* page of the collector's open region, 0 if closed
    nmut,                      \* mutator steps taken so far
    pc,                        \* position of the thread running save_cmd
    th_i,                      \* loop index of for_each_thread
    file,                      \* contents of the file named by pathname
    wpos,                      \* file offset of the writer's descriptor
    captured,                  \* heap and threads as they were when the capture began
    short_write,               \* some write so far transferred less than was asked
    \* ---- the file handed to ldb
    image,
    tamper,
    \* ---- the ldb process
    ld_pc,
    ld_pos,
    ld_preamble,
    ld_thread_preamble,
    ld_i,
    ld_static_space,
    ld_static_start,           \* where the static-space bytes were read to
    ld_dynspace,               \* what os_validate returned for dynamic space
    ld_dynamic_space,
    ld_page_table,
    ld_card_table_nbits,
    ld_card_mark,
    ld_fixedobj_map,
    ld_fixedobj_space,
    ld_fixedobj_pages,
    ld_varyobj_map,
    ld_varyobj_space,
    ld_touched_bits,
    ld_varyobj_pages,
    ld_foreign_clobbered,      \* a payload was replayed over a mapping that is not ours
    ld_threads,                \* the local list "threads", head first
    ld_scan,                   \* per restored thread, head first: what its stack scan counted
    all_threads,               \* all_threads of the ldb process
    ld_globals,                \* lisp_package_vector and sb_sprof_enabled
    ld_generations,            \* generations[g].bytes_allocated of ldb
    ld_overrun,                \* cells were stored past the end of what ldb mapped or allocated
    \* ---- a hand-built dynamic space and the ldb command "search"
    heap_objects,              \* the objects laid out, in address order
    sr_space,                  \* cells of the hand-built dynamic space
    sr_page_table,             \* its page table
    sr_addr,                   \* the address given to the command
    sr_out,                    \* what the command printed
    \* ---- the red-black tree tests
    rb_tree,                   \* the variable "tree" of the tests
    rb_original,               \* the tree that was passed to the last operation
    rb_inserted,               \* the keys the test holds as present, with the value last inserted
    rb_op,                     \* the last operation and its key
    rb_found,                  \* what the last lookup returned
    \* ---- the collector's unit tests
    ut_page_table,             \* the mock page table
    ut_region,                 \* struct alloc_region r / test_region
    bytes_allocated,
    generations,               \* bytes_allocated of each generation
    gc_alloc_generation,
    tot_bytes,                 \* what the test has consumed from regions so far
    ut_call,                   \* the request of the call under way
    expected_result,           \* the page table of the reference object
    freed,                     \* what adjust_obj_ptes returned
    ut_pc,
    \* ---- the ldb command "dump" in decode mode
    dc_memory,                 \* the words from the address given to the command
    dc_addr,                   \* addr, as the index of a word of dc_memory
    dc_next_object,            \* next_object, likewise; 0 when decode was off at the start
    dc_decode,                 \* decode
    dc_count,                  \* count
    dc_sized,                  \* the widetags the size table was invoked for
    dc_pc,
    \* ---- a capture made twice
    preamble_frame,            \* what the stack holds where save_gc_crashdump has its preamble
    first_capture              \* the file of the first of two captures, once it is complete

searchVars == <<heap_objects, sr_space, sr_page_table, sr_addr, sr_out>>
rbVars == <<rb_tree, rb_original, rb_inserted, rb_op, rb_found>>
gcTestVars == <<ut_page_table, ut_region, bytes_allocated, generations,
                gc_alloc_generation, tot_bytes, ut_call, expected_result, freed, ut_pc>>
decodeVars == <<dc_memory, dc_addr, dc_next_object, dc_decode, dc_count, dc_sized, dc_pc>>
rerunVars == <<preamble_frame, first_capture>>
unitVars == <<searchVars, rbVars, gcTestVars, decodeVars, rerunVars>>
configVars == <<gc_card_table_nbits, unitVars>>
heapVars == <<static_space, dynamic_space, next_free_page, page_table,
              configVars, gc_card_mark, fixedobj_space, fixedobj_pages,
              varyobj_space, varyobj_page_touched_bits, varyobj_pages>>
procVars == <<threads, collector_region, nmut>>
fileVars == <<file, wpos, short_write>>
imageVars == <<image, tamper>>
ldCtlVars == <<ld_pc, ld_pos, ld_preamble, ld_thread_preamble, ld_i>>
ldHeapVars == <<ld_static_space, ld_static_start, ld_dynspace, ld_dynamic_space, ld_page_table,
                ld_card_table_nbits, ld_card_mark>>
ldImmVars == <<ld_fixedobj_map, ld_fixedobj_space, ld_fixedobj_pages,
               ld_varyobj_map, ld_varyobj_space, ld_touched_bits, ld_varyobj_pages,
               ld_foreign_clobbered>>
ldThreadVars == <<ld_threads, all_threads, ld_scan>>
ldVars == <<ldCtlVars, ldHeapVars, ldImmVars, ldThreadVars, ld_globals, ld_generations,
           ld_overrun>>
vars == <<heapVars, procVars, pc, th_i, fileVars, captured, imageVars, ldVars>>


\* ------------------------------------------------------ the dumping process

\* The generations of the pages of an image: mutators allocate in generation 0.
Generations == 0..1

\* A page-table entry is one cell: words_used above the type bits.
pte_make(type, words_used) == words_used * 16 + type
pte_type(c) == c % 16
pte_words_used(c) == c \div 16
PAGE_TYPE_BOXED == 1
PAGE_TYPE_CODE == 7

\* The thread running ldb (get_sb_vm_thread()): the oldest thread, last in the list.
Self == Len(threads)

\* struct thread followed by its thread-local cells, as laid out in memory:
\* ThreadStructWords - 1 header cells, lisp_thread, then the TLS slots.
InitialTls(addr, ici) ==
    [k \in 1..(ThreadStructWords - 1) |-> addr]
        \o <<addr + 100, make_fixnum(ici), 0>>

\* A register snapshot: the stack pointer, then the other registers.
ContextAt(sp) == <<sp>> \o [k \in 1..(SizeofOsContext - 1) |-> 1]

InitialThread(t, ici) ==
    [ addr |-> 40 + t,
      control_stack_end |-> 100 + 10 * t,
      cs |-> <<>>,                           \* cells from sp up to control_stack_end
      context |-> IF ici = 0 THEN <<>> ELSE ContextAt(100 + 10 * t),
      bs |-> <<>>,                           \* cells from binding_stack_start up
      tls |-> InitialTls(40 + t, ici),
      state |-> "running",
      region_page |-> 0,                     \* page of the open region, 0 if closed
      region_used |-> 0 ]

ici_of(th) == fixnum_value(th.tls[FREE_INTERRUPT_CONTEXT_INDEX])
nbytes_tls == ThreadStructWords + 2          \* SymbolValue(FREE_TLS_INDEX)
gc_card_table_mask == 2 ^ gc_card_table_nbits - 1

InitLoader ==
    /\ image = <<>>
    /\ tamper = "none"
    /\ ld_pc = "idle"
    /\ ld_pos = 0
    /\ ld_preamble = <<>>
    /\ ld_thread_preamble = <<>>
    /\ ld_i = 0
    /\ ld_static_space = <<>>
    /\ ld_static_start = 0
    /\ ld_dynspace = 0
    /\ ld_dynamic_space = <<>>
    /\ ld_page_table = <<>>
    /\ ld_card_table_nbits = 0
    /\ ld_card_mark = <<>>
    /\ ld_fixedobj_map = "none"
    /\ ld_fixedobj_space = <<>>
    /\ ld_fixedobj_pages = <<>>
    /\ ld_varyobj_map = "none"
    /\ ld_varyobj_space = <<>>
    /\ ld_touched_bits = <<>>
    /\ ld_varyobj_pages = <<>>
    /\ ld_foreign_clobbered = FALSE
    /\ ld_threads = <<>>
    /\ ld_scan = <<>>
    /\ all_threads = <<>>
    /\ ld_globals = <<0, 0>>
    /\ ld_generations = [g \in Generations |-> 0]
    /\ ld_overrun = FALSE

InitHeap ==
    /\ static_space = <<0, 1>>
    /\ dynamic_space = <<>>
    /\ next_free_page = 0
    /\ page_table = <<>>
    /\ gc_card_table_nbits = CardTableNBitsAtSave
    /\ gc_card_mark = Zeros(2 ^ gc_card_table_nbits)
    /\ fixedobj_space = <<>>
    /\ fixedobj_pages = Zeros(TotalNPagesFixedobj)
    /\ varyobj_space = <<>>
    /\ varyobj_page_touched_bits = Zeros(NBitmapElts)
    /\ varyobj_pages = Zeros(TotalNPagesVaryobj)

\* What the command "search" prints: the address of an object, or "Not found",
\* which the model writes as the null address.
NotFound == 0

\* The state of the unit scenarios while the crash dump runs.
SearchIdle ==
    /\ heap_objects = <<>>
    /\ sr_space = <<>>
    /\ sr_page_table = <<>>
    /\ sr_addr = 0
    /\ sr_out = NotFound

\* The empty tree is nil; a node has a color, a key, a value and two subtrees.
Leaf == [leaf |-> TRUE]

RBIdle ==
    /\ rb_tree = Leaf
    /\ rb_original = Leaf
    /\ rb_inserted = <<>>
    /\ rb_op = <<"none", 0>>
    /\ rb_found = Leaf

GcTestsIdle ==
    /\ ut_page_table = <<>>
    /\ ut_region = <<>>
    /\ bytes_allocated = 0
    /\ generations = <<>>
    /\ gc_alloc_generation = 0
    /\ tot_bytes = 0
    /\ ut_call = <<>>
    /\ expected_result = <<>>
    /\ freed = 0
    /\ ut_pc = "idle"

DecodeIdle ==
    /\ dc_memory = <<>>
    /\ dc_addr = 0
    /\ dc_next_object = 0
    /\ dc_decode = FALSE
    /\ dc_count = 0
    /\ dc_sized = <<>>
    /\ dc_pc = "idle"

\* One capture, into a stack frame of zeros.
RerunIdle ==
    /\ preamble_frame = 0
    /\ first_capture = <<>>

UnitIdle == SearchIdle /\ RBIdle /\ GcTestsIdle /\ DecodeIdle /\ RerunIdle

InitWriter ==
    /\ collector_region = 0
    /\ nmut = 0
    /\ pc = "run"
    /\ th_i = 0
    /\ file = <<>>
    /\ wpos = 0
    /\ captured = <<>>
    /\ short_write = FALSE

Init ==
    /\ InitHeap
    /\ \E n \in 1..MaxThreads : \E self_ici \in {0, 1} :
          threads = [t \in 1..n |-> InitialThread(t, IF t = n THEN self_ici ELSE 0)]
    /\ InitWriter
    /\ InitLoader
    /\ UnitIdle

\* ---------------------------------------------------------------- mutators
\* A thread executes Lisp code while it is running; the thread that runs ldb
\* did so until it entered the monitor.  The model follows the writer process
\* up to the return of save_cmd.
MayMutate(t) ==
    /\ t \in 1..Len(threads)
    /\ threads[t].state = "running"
    /\ t = Self => pc = "run"
    /\ pc \notin {"done", "exited"}
    /\ nmut < MaxMutations
    /\ ld_pc = "idle"

\* Push a word on the control stack (towards lower addresses).
MutatorPush(t) ==
    /\ MayMutate(t)
    /\ Len(threads[t].cs) < MaxStack
    /\ threads' = [threads EXCEPT ![t].cs = <<1>> \o @,
                                  ![t].context = IF @ = <<>> THEN @
                                                 ELSE ContextAt(threads[t].control_stack_end
                                                                  - Len(threads[t].cs) - 1)]
    /\ nmut' = nmut + 1
    /\ UNCHANGED <<heapVars, collector_region, pc, th_i, fileVars, captured, imageVars, ldVars>>

\* Bind a special variable: one more cell on the binding stack, and the new
\* value in the thread-local slot.
MutatorBind(t) ==
    /\ MayMutate(t)
    /\ Len(threads[t].bs) < MaxStack
    /\ threads' = [threads EXCEPT ![t].bs = Append(@, 1),
                                  ![t].tls[nbytes_tls] = 1]
    /\ nmut' = nmut + 1
    /\ UNCHANGED <<heapVars, collector_region, pc, th_i, fileVars, captured, imageVars, ldVars>>

card_index(page) == ((page - 1) % (gc_card_table_mask + 1)) + 1

\* Allocate in dynamic space: open a region on a fresh page (gc_alloc_new_region)
\* or bump the free pointer of the open region and initialise the new cell.
\* words_used of the page is brought up to date only when the region is closed.
MutatorAlloc(t) ==
    /\ MayMutate(t)
    /\ IF threads[t].region_page = 0
       THEN /\ next_free_page < MaxPages
            /\ next_free_page' = next_free_page + 1
            /\ dynamic_space' = dynamic_space \o Zeros(GENCGC_PAGE_BYTES)
            /\ page_table' = Append(page_table,
                                    pte_make(PAGE_TYPE_BOXED + OPEN_REGION_PAGE_FLAG, 0))
            /\ threads' = [threads EXCEPT ![t].region_page = next_free_page + 1,
                                          ![t].region_used = 0]
            /\ UNCHANGED gc_card_mark
       ELSE /\ threads[t].region_used < GENCGC_PAGE_BYTES
            /\ dynamic_space' =
                 [dynamic_space EXCEPT ![(threads[t].region_page - 1) * GENCGC_PAGE_BYTES
                                          + threads[t].region_used + 1] = 1]
            /\ gc_card_mark' = [gc_card_mark EXCEPT ![card_index(threads[t].region_page)] = 1]
            /\ threads' = [threads EXCEPT ![t].region_used = @ + 1]
            /\ UNCHANGED <<next_free_page, page_table>>
    /\ nmut' = nmut + 1
    /\ UNCHANGED <<static_space, configVars, fixedobj_space, fixedobj_pages,
                   varyobj_space, varyobj_page_touched_bits, varyobj_pages,
                   collector_region, pc, th_i, fileVars, captured, imageVars, ldVars>>

\* Store into static space, allocate a fixed-size or a variable-size immobile object.
MutatorStoreStatic(t) ==
    /\ MayMutate(t)
    /\ static_space' = [static_space EXCEPT ![1] = 1 - @]
    /\ nmut' = nmut + 1
    /\ UNCHANGED <<dynamic_space, next_free_page, page_table, configVars, gc_card_mark,
                   fixedobj_space, fixedobj_pages, varyobj_space, varyobj_page_touched_bits,
                   varyobj_pages, threads, collector_region, pc, th_i, fileVars, captured,
                   imageVars, ldVars>>

MutatorAllocFixedobj(t) ==
    /\ MayMutate(t)
    /\ Len(fixedobj_space) < FIXEDOBJ_SPACE_SIZE
    /\ fixedobj_space' = Append(fixedobj_space, 1)
    /\ fixedobj_pages' = [fixedobj_pages EXCEPT ![(Len(fixedobj_space) \div IMMOBILE_CARD_BYTES) + 1] = 1]
    /\ nmut' = nmut + 1
    /\ UNCHANGED <<static_space, dynamic_space, next_free_page, page_table, configVars,
                   gc_card_mark, varyobj_space, varyobj_page_touched_bits, varyobj_pages,
                   threads, collector_region, pc, th_i, fileVars, captured, imageVars, ldVars>>

MutatorAllocVaryobj(t) ==
    /\ MayMutate(t)
    /\ Len(varyobj_space) < VARYOBJ_SPACE_SIZE
    /\ varyobj_space' = Append(varyobj_space, 1)
    /\ varyobj_pages' = [varyobj_pages EXCEPT ![(Len(varyobj_space) \div IMMOBILE_CARD_BYTES) + 1] = 1]
    /\ varyobj_page_touched_bits' =
          [varyobj_page_touched_bits EXCEPT ![((Len(varyobj_space) \div IMMOBILE_CARD_BYTES) \div 32) + 1] = 1]
    /\ nmut' = nmut + 1
    /\ UNCHANGED <<static_space, dynamic_space, next_free_page, page_table, configVars,
                   gc_card_mark, fixedobj_space, fixedobj_pages,
                   threads, collector_region, pc, th_i, fileVars, captured, imageVars, ldVars>>

\* The collector copies into a region of its own while a collection is running;
\* ldb can be entered in the middle of one.
CollectorAlloc(t) ==
    /\ MayMutate(t)
    /\ collector_region = 0
    /\ next_free_page < MaxPages
    /\ next_free_page' = next_free_page + 1
    /\ dynamic_space' = dynamic_space \o <<1>> \o Zeros(GENCGC_PAGE_BYTES - 1)
    /\ page_table' = Append(page_table, pte_make(PAGE_TYPE_BOXED + OPEN_REGION_PAGE_FLAG, 0))
    /\ collector_region' = next_free_page + 1
    /\ nmut' = nmut + 1
    /\ UNCHANGED <<static_space, configVars, gc_card_mark, fixedobj_space,
                   fixedobj_pages, varyobj_space, varyobj_page_touched_bits, varyobj_pages,
                   threads, pc, th_i, fileVars, captured, imageVars, ldVars>>


\* ----------------------------------------------- save_cmd: stopping the world

\* gc_stop_the_world: on return every other thread is stopped.  A thread stopped
\* inside its stop-for-GC signal handler has pushed an interrupt context
\* (has[t] = 1); one that was stopped in another way has not.
gc_stop_the_world(ths, has) ==
    [t \in 1..Len(ths) |->
        IF t = Len(ths) THEN ths[t]
        ELSE [ths[t] EXCEPT
                !.state = "stopped",
                !.tls[FREE_INTERRUPT_CONTEXT_INDEX] = make_fixnum(has[t]),
                !.context = IF has[t] = 0 THEN <<>>
                            ELSE ContextAt(ths[t].control_stack_end - Len(ths[t].cs))]]

\* gc_close_thread_regions / gc_close_collector_regions: the page of an open
\* region loses its open flag and gets its final words_used.
close_region(pt, page, used) ==
    IF page = 0 THEN pt
    ELSE [pt EXCEPT ![page] = pte_make(pte_type(@) - OPEN_REGION_PAGE_FLAG, used)]

gc_start_the_world(ths) ==
    [t \in 1..Len(ths) |-> [ths[t] EXCEPT !.state = "running"]]

\* As suspend_stop_the_world, but the world is not stopped (the call is left
\* out, as it is in a build without threads).
suspend_stop_the_world_NoStop ==
    /\ pc = "run"
    /\ pc' = "close_thread_regions"
    /\ th_i' = 1
    /\ UNCHANGED <<heapVars, procVars, fileVars, captured, imageVars, ldVars>>

\* suspend_other_threads, first statement.
suspend_stop_the_world ==
    /\ pc = "run"
    /\ \E has \in [1..Len(threads) -> {0, 1}] :
          /\ has[Len(threads)] = 0
          /\ threads' = gc_stop_the_world(threads, has)
    /\ pc' = "close_thread_regions"
    /\ th_i' = 1
    /\ UNCHANGED <<heapVars, collector_region, nmut, fileVars, captured, imageVars, ldVars>>

\* suspend_other_threads, one iteration of for_each_thread.
suspend_close_thread_regions ==
    /\ pc = "close_thread_regions"
    /\ th_i <= Len(threads)
    /\ page_table' = close_region(page_table, threads[th_i].region_page,
                                  threads[th_i].region_used)
    /\ threads' = [threads EXCEPT ![th_i].region_page = 0, ![th_i].region_used = 0]
    /\ th_i' = th_i + 1
    /\ pc' = IF th_i = Len(threads) THEN "close_collector_regions" ELSE pc
    /\ UNCHANGED <<static_space, dynamic_space, next_free_page, configVars,
                   gc_card_mark, fixedobj_space, fixedobj_pages, varyobj_space,
                   varyobj_page_touched_bits, varyobj_pages, collector_region, nmut,
                   fileVars, captured, imageVars, ldVars>>

\* suspend_other_threads, last statement; save_cmd then calls save_gc_crashdump.
suspend_close_collector_regions ==
    /\ pc = "close_collector_regions"
    /\ page_table' = close_region(page_table, collector_region, 1)
    /\ collector_region' = 0
    /\ pc' = "save_open"
    /\ UNCHANGED <<static_space, dynamic_space, next_free_page, configVars,
                   gc_card_mark, fixedobj_space, fixedobj_pages, varyobj_space,
                   varyobj_page_touched_bits, varyobj_pages, threads, nmut, th_i,
                   fileVars, captured, imageVars, ldVars>>

\* unsuspend_other_threads, then save_cmd returns 0.
unsuspend_other_threads ==
    /\ pc = "unsuspend"
    /\ threads' = gc_start_the_world(threads)
    /\ pc' = "done"
    /\ UNCHANGED <<heapVars, collector_region, nmut, th_i, fileVars, captured,
                   imageVars, ldVars>>

\* --------------------------------------------------------- save_gc_crashdump

\* write(2) on the descriptor: res cells of buf go to the file at the current
\* offset, replacing what was there and extending the file as needed.
PutAt(f, pos, buf) ==
    [k \in 1..Max(Len(f), pos + Len(buf)) |->
        IF k > pos /\ k <= pos + Len(buf) THEN buf[k - pos] ELSE f[k]]

\* What write can return for a request of n cells: -1 (nothing written), n, or
\* a short count, of which the model takes the largest one, n - 1.
WriteResults(n) == {-1, n} \cup (IF n > 0 THEN {n - 1} ELSE {})

write(buf, res) ==
    /\ file' = PutAt(file, wpos, Take(buf, Max(res, 0)))
    /\ wpos' = wpos + Max(res, 0)
    /\ short_write' = (short_write \/ res # Len(buf))

\* checked_write: lose() unless the whole buffer was written.
checked_write(buf, next) ==
    \E res \in WriteResults(Len(buf)) :
        /\ write(buf, res)
        /\ pc' = IF res # Len(buf) THEN "lost" ELSE next

\* The preamble as checked_write puts it out: its fields, and between
\* pin_dynspace_code and sizeof_context the padding of the structure, which
\* no statement assigns and which holds what the stack frame held.
struct_crash_preamble ==
    << CRASH_PREAMBLE_SIGNATURE,
       STATIC_SPACE_START,
       Len(static_space),
       DynamicSpaceStartAtSave,
       next_free_page,
       GENCGC_CARD_BYTES,
       gc_card_table_nbits,
       FixedobjSpaceStartAtSave,
       FIXEDOBJ_SPACE_SIZE,
       FixedobjSpaceStartAtSave + Len(fixedobj_space),
       VaryobjSpaceStartAtSave,
       VARYOBJ_SPACE_SIZE,
       VaryobjSpaceStartAtSave + Len(varyobj_space),
       Len(threads),
       nbytes_tls,
       LispPackageVectorAtSave,
       SbSprofEnabledAtSave,
       PinAllDynamicSpaceCodeAtSave,
       preamble_frame,
       SizeofOsContext >>

\* Field accessors of a preamble held as a sequence of cells.
P_signature(p) == p[1]
P_static_start(p) == p[2]
P_static_nbytes(p) == p[3]
P_dynspace_start(p) == p[4]
P_dynspace_npages(p) == p[5]
P_card_size(p) == p[6]
P_card_table_nbits(p) == p[7]
P_fixedobj_start(p) == p[8]
P_fixedobj_size(p) == p[9]
P_fixedobj_free_pointer(p) == p[10]
P_varyobj_start(p) == p[11]
P_varyobj_size(p) == p[12]
P_varyobj_free_pointer(p) == p[13]
P_nthreads(p) == p[14]
P_tls_size(p) == p[15]
P_lisp_package_vector(p) == p[16]
P_sprof_enabled(p) == p[17]
P_pin_dynspace_code(p) == p[18]
P_sizeof_context(p) == p[20]
PreambleCells == Len(struct_crash_preamble)
ThreadPreambleCells == 4

HeapSnapshot ==
    [ static_space |-> static_space, dynamic_space |-> dynamic_space,
      page_table |-> page_table, gc_card_mark |-> gc_card_mark,
      fixedobj_space |-> fixedobj_space, fixedobj_pages |-> fixedobj_pages,
      varyobj_space |-> varyobj_space,
      varyobj_page_touched_bits |-> varyobj_page_touched_bits,
      varyobj_pages |-> varyobj_pages, threads |-> threads ]

\* open(pathname, O_WRONLY|O_CREAT) and the count of threads.
save_open ==
    /\ pc = "save_open"
    /\ wpos' = 0
    /\ captured' = <<HeapSnapshot>>
    /\ pc' = "w_preamble"
    /\ UNCHANGED <<heapVars, procVars, th_i, file, short_write, imageVars, ldVars>>

save_preamble ==
    /\ pc = "w_preamble"
    /\ checked_write(struct_crash_preamble, "w_static")
    /\ UNCHANGED <<heapVars, procVars, th_i, captured, imageVars, ldVars>>

save_static ==
    /\ pc = "w_static"
    /\ checked_write(SubSeq(static_space, 1, P_static_nbytes(struct_crash_preamble)),
                     "w_dynamic")
    /\ UNCHANGED <<heapVars, procVars, th_i, captured, imageVars, ldVars>>

save_dynamic ==
    /\ pc = "w_dynamic"
    /\ checked_write(SubSeq(dynamic_space, 1, next_free_page * GENCGC_PAGE_BYTES),
                     "w_page_table")
    /\ UNCHANGED <<heapVars, procVars, th_i, captured, imageVars, ldVars>>

save_page_table ==
    /\ pc = "w_page_table"
    /\ checked_write(SubSeq(page_table, 1, next_free_page), "w_card_mark")
    /\ UNCHANGED <<heapVars, procVars, th_i, captured, imageVars, ldVars>>

save_card_mark ==
    /\ pc = "w_card_mark"
    /\ checked_write(SubSeq(gc_card_mark, 1, 1 + gc_card_table_mask), "w_fixedobj")
    /\ UNCHANGED <<heapVars, procVars, th_i, captured, imageVars, ldVars>>

save_fixedobj ==
    /\ pc = "w_fixedobj"
    /\ checked_write(SubSeq(fixedobj_space, 1, Len(fixedobj_space)), "w_fixedobj_pages")
    /\ UNCHANGED <<heapVars, procVars, th_i, captured, imageVars, ldVars>>

save_fixedobj_pages ==
    /\ pc = "w_fixedobj_pages"
    /\ checked_write(SubSeq(fixedobj_pages, 1, TotalNPagesFixedobj), "w_varyobj")
    /\ UNCHANGED <<heapVars, procVars, th_i, captured, imageVars, ldVars>>

save_varyobj ==
    /\ pc = "w_varyobj"
    /\ checked_write(SubSeq(varyobj_space, 1, Len(varyobj_space)), "w_touched_bits")
    /\ UNCHANGED <<heapVars, procVars, th_i, captured, imageVars, ldVars>>

save_touched_bits ==
    /\ pc = "w_touched_bits"
    /\ checked_write(SubSeq(varyobj_page_touched_bits, 1, NBitmapElts), "w_varyobj_pages")
    /\ UNCHANGED <<heapVars, procVars, th_i, captured, imageVars, ldVars>>

save_varyobj_pages ==
    /\ pc = "w_varyobj_pages"
    /\ checked_write(SubSeq(varyobj_pages, 1, TotalNPagesVaryobj),
                     IF Len(threads) = 0 THEN "w_trailer" ELSE "w_thread_preamble")
    /\ th_i' = 1
    /\ UNCHANGED <<heapVars, procVars, captured, imageVars, ldVars>>


\* The stack pointer save_gc_crashdump uses for thread th: the one in its
\* interrupt context 0 if it has one, else approx_stackptr_at_gc_start, the
\* frame address of save_cmd.
crash_sp(th) ==
    IF ici_of(th) # 0 THEN th.context[1]
    ELSE th.control_stack_end - Len(th.cs)

nbytes_control_stack(th) == th.control_stack_end - crash_sp(th)
nbytes_binding_stack(th) == Len(th.bs)

\* The cells of the control stack from address sp up to control_stack_end.
control_stack_from(th, sp) ==
    SubSeq(th.cs, Len(th.cs) - (th.control_stack_end - sp) + 1, Len(th.cs))

struct_crash_thread_preamble(th) ==
    << th.addr,
       IF ici_of(th) # 0 THEN 1 ELSE 0,
       nbytes_control_stack(th),
       nbytes_binding_stack(th) >>

\* The loop body without the test for the current thread.
save_thread_preamble_NoExit ==
    /\ pc = "w_thread_preamble"
    /\ checked_write(struct_crash_thread_preamble(threads[th_i]),
                     IF ici_of(threads[th_i]) # 0 THEN "w_context" ELSE "w_control_stack")
    /\ UNCHANGED <<heapVars, procVars, th_i, captured, imageVars, ldVars>>

\* Top of the loop body: a thread without interrupt context that is not the
\* current thread ends the process with _exit(1); otherwise the thread
\* preamble is written.
save_thread_preamble ==
    /\ pc = "w_thread_preamble"
    /\ IF ici_of(threads[th_i]) = 0 /\ th_i # Self
       THEN /\ pc' = "exited"
            /\ UNCHANGED <<file, wpos, short_write>>
       ELSE checked_write(struct_crash_thread_preamble(threads[th_i]),
                          IF ici_of(threads[th_i]) # 0 THEN "w_context"
                                                       ELSE "w_control_stack")
    /\ UNCHANGED <<heapVars, procVars, th_i, captured, imageVars, ldVars>>

\* if (ici) write(fd, threadcontext, preamble.sizeof_context): the result of
\* this write is not looked at.
save_context ==
    /\ pc = "w_context"
    /\ \E res \in WriteResults(P_sizeof_context(struct_crash_preamble)) :
          write(SubSeq(threads[th_i].context, 1, P_sizeof_context(struct_crash_preamble)),
                res)
    /\ pc' = "w_control_stack"
    /\ UNCHANGED <<heapVars, procVars, th_i, captured, imageVars, ldVars>>

save_control_stack ==
    /\ pc = "w_control_stack"
    /\ checked_write(control_stack_from(threads[th_i], crash_sp(threads[th_i])),
                     "w_binding_stack")
    /\ UNCHANGED <<heapVars, procVars, th_i, captured, imageVars, ldVars>>

save_binding_stack ==
    /\ pc = "w_binding_stack"
    /\ checked_write(SubSeq(threads[th_i].bs, 1, nbytes_binding_stack(threads[th_i])),
                     "w_tls")
    /\ UNCHANGED <<heapVars, procVars, th_i, captured, imageVars, ldVars>>

save_tls ==
    /\ pc = "w_tls"
    /\ checked_write(SubSeq(threads[th_i].tls, 1, nbytes_tls),
                     IF th_i = Len(threads) THEN "w_trailer" ELSE "w_thread_preamble")
    /\ th_i' = th_i + 1
    /\ UNCHANGED <<heapVars, procVars, captured, imageVars, ldVars>>

\* The trailing signature, close(fd), return to save_cmd.
save_trailer ==
    /\ pc = "w_trailer"
    /\ checked_write(TrailingSignature, "unsuspend")
    /\ UNCHANGED <<heapVars, procVars, th_i, captured, imageVars, ldVars>>

\* ------------------------------------------------- the file is given to ldb
\* ldb is started on the file of a capture that returned.
HandOver ==
    /\ pc = "done"
    /\ ld_pc = "idle"
    /\ image' = file
    /\ tamper' = "none"
    /\ ld_pc' = "l_preamble"
    /\ UNCHANGED <<heapVars, procVars, pc, th_i, fileVars, captured,
                   ld_pos, ld_preamble, ld_thread_preamble, ld_i,
                   ldHeapVars, ldImmVars, ldThreadVars, ld_globals, ld_generations, ld_overrun>>


\* --------------------------------------------------------- load_gc_crashdump
writerVars == <<heapVars, procVars, pc, th_i, fileVars, captured, imageVars>>

\* read(2) on a regular file: the cells up to the end of the file, at most n.
\* A negative n is a huge size_t.
ReadCount(n) == IF n < 0 THEN Len(image) - ld_pos ELSE Min(n, Len(image) - ld_pos)
read_data(n) == SubSeq(image, ld_pos + 1, ld_pos + ReadCount(n))

\* checked_read: lose() unless n cells were read.
checked_read(n, next) ==
    /\ ld_pos' = ld_pos + ReadCount(n)
    /\ ld_pc' = IF ReadCount(n) # n THEN "lost" ELSE next

\* gc_allocate_ptes: the card table is allocated with 1 << gc_card_table_nbits marks.
gc_allocate_ptes(nbits) == Zeros(2 ^ nbits)

\* As load_preamble, but the signature is not compared.
load_preamble_NoSignatureCheck ==
    /\ ld_pc = "l_preamble"
    /\ LET data == read_data(PreambleCells)
           complete == ReadCount(PreambleCells) = PreambleCells
       IN  /\ ld_pos' = ld_pos + ReadCount(PreambleCells)
           /\ ld_preamble' = data
           /\ ld_globals' = IF complete
                            THEN <<P_lisp_package_vector(data), P_sprof_enabled(data)>>
                            ELSE ld_globals
           /\ IF    ~ complete
                 \/ P_card_size(data) # GENCGC_CARD_BYTES
              THEN /\ ld_pc' = "lost"
                   /\ UNCHANGED <<ld_card_table_nbits, ld_card_mark>>
              ELSE /\ ld_pc' = "l_static"
                   /\ ld_card_table_nbits' = P_card_table_nbits(data)
                   /\ ld_card_mark' = gc_allocate_ptes(P_card_table_nbits(data))
    /\ UNCHANGED <<writerVars, ld_thread_preamble, ld_i, ld_static_space, ld_static_start,
                   ld_dynspace,
                   ld_dynamic_space, ld_page_table, ldImmVars, ldThreadVars,
                   ld_generations, ld_overrun>>

\* As load_preamble, but the card size is not compared.
load_preamble_NoCardSizeCheck ==
    /\ ld_pc = "l_preamble"
    /\ LET data == read_data(PreambleCells)
           complete == ReadCount(PreambleCells) = PreambleCells
       IN  /\ ld_pos' = ld_pos + ReadCount(PreambleCells)
           /\ ld_preamble' = data
           /\ ld_globals' = IF complete
                            THEN <<P_lisp_package_vector(data), P_sprof_enabled(data)>>
                            ELSE ld_globals
           /\ IF    ~ complete
                 \/ P_signature(data) # CRASH_PREAMBLE_SIGNATURE
              THEN /\ ld_pc' = "lost"
                   /\ UNCHANGED <<ld_card_table_nbits, ld_card_mark>>
              ELSE /\ ld_pc' = "l_static"
                   /\ ld_card_table_nbits' = P_card_table_nbits(data)
                   /\ ld_card_mark' = gc_allocate_ptes(P_card_table_nbits(data))
    /\ UNCHANGED <<writerVars, ld_thread_preamble, ld_i, ld_static_space, ld_static_start,
                   ld_dynspace,
                   ld_dynamic_space, ld_page_table, ldImmVars, ldThreadVars,
                   ld_generations, ld_overrun>>

\* Read the preamble, set lisp_package_vector and sb_sprof_enabled from it,
\* check the signature and the card size, allocate the tables.
load_preamble ==
    /\ ld_pc = "l_preamble"
    /\ LET data == read_data(PreambleCells)
           complete == ReadCount(PreambleCells) = PreambleCells
       IN  /\ ld_pos' = ld_pos + ReadCount(PreambleCells)
           /\ ld_preamble' = data
           /\ ld_globals' = IF complete
                            THEN <<P_lisp_package_vector(data), P_sprof_enabled(data)>>
                            ELSE ld_globals
           /\ IF    ~ complete
                 \/ P_signature(data) # CRASH_PREAMBLE_SIGNATURE
                 \/ P_card_size(data) # GENCGC_CARD_BYTES
              THEN /\ ld_pc' = "lost"
                   /\ UNCHANGED <<ld_card_table_nbits, ld_card_mark>>
              ELSE /\ ld_pc' = "l_static"
                   /\ ld_card_table_nbits' = P_card_table_nbits(data)
                   /\ ld_card_mark' = gc_allocate_ptes(P_card_table_nbits(data))
    /\ UNCHANGED <<writerVars, ld_thread_preamble, ld_i, ld_static_space, ld_static_start,
                   ld_dynspace,
                   ld_dynamic_space, ld_page_table, ldImmVars, ldThreadVars,
                   ld_generations, ld_overrun>>

\* checked_read(fd, STATIC_SPACE_START, preamble.static_nbytes)
load_static ==
    /\ ld_pc = "l_static"
    /\ checked_read(P_static_nbytes(ld_preamble), "l_map_dynamic")
    /\ ld_static_space' = read_data(P_static_nbytes(ld_preamble))
    /\ ld_static_start' = STATIC_SPACE_START
    /\ UNCHANGED <<writerVars, ld_preamble, ld_thread_preamble, ld_i, ld_dynspace,
                   ld_dynamic_space, ld_page_table, ld_card_table_nbits, ld_card_mark,
                   ldImmVars, ldThreadVars, ld_globals, ld_generations, ld_overrun>>

\* Addresses os_validate can return for a request at addr: addr itself, 0 when
\* nothing could be mapped, or the address of a mapping placed elsewhere.
ElsewhereAddress == 999
os_validate_results(addr) == {addr, 0, ElsewhereAddress}

\* As load_map_dynamic, but the address returned is not compared.
load_map_dynamic_NoCompare ==
    /\ ld_pc = "l_map_dynamic"
    /\ \E dynspace \in os_validate_results(P_dynspace_start(ld_preamble)) :
          /\ ld_dynspace' = dynspace
          /\ ld_pc' = "l_dynamic"
    /\ UNCHANGED <<writerVars, ld_pos, ld_preamble, ld_thread_preamble, ld_i, ld_static_space,
                   ld_static_start,
                   ld_dynamic_space, ld_page_table, ld_card_table_nbits, ld_card_mark,
                   ldImmVars, ldThreadVars, ld_globals, ld_generations, ld_overrun>>

\* os_validate of dynamic space and the comparison with preamble.dynspace_start.
load_map_dynamic ==
    /\ ld_pc = "l_map_dynamic"
    /\ \E dynspace \in os_validate_results(P_dynspace_start(ld_preamble)) :
          /\ ld_dynspace' = dynspace
          /\ ld_pc' = IF dynspace # P_dynspace_start(ld_preamble) THEN "lost"
                      ELSE "l_dynamic"
    /\ UNCHANGED <<writerVars, ld_pos, ld_preamble, ld_thread_preamble, ld_i, ld_static_space,
                   ld_static_start,
                   ld_dynamic_space, ld_page_table, ld_card_table_nbits, ld_card_mark,
                   ldImmVars, ldThreadVars, ld_globals, ld_generations, ld_overrun>>

\* The size of the dynamic space of ldb.
dynamic_space_size == (MaxPages + 1) * GENCGC_PAGE_BYTES

\* page_table_pages: the pages of the dynamic space of ldb, which is what
\* os_validate mapped and what gc_allocate_ptes allocated entries for (and one
\* more entry).
page_table_pages == dynamic_space_size \div GENCGC_PAGE_BYTES

\* checked_read(fd, DYNAMIC_SPACE_START, dynspace_nbytes).  The count is not
\* compared with the size of the mapping.  Past the end of the mapping there
\* is either nothing, and read() stops there with a short count, or another
\* mapping of the process, and the cells are stored over it.
load_dynamic ==
    /\ ld_pc = "l_dynamic"
    /\ LET n == P_dynspace_npages(ld_preamble) * GENCGC_PAGE_BYTES
       IN  \/ /\ checked_read(n, "l_page_table")
              /\ ld_dynamic_space' = Take(read_data(n), dynamic_space_size)
              /\ ld_overrun' = (ld_overrun \/ ReadCount(n) > dynamic_space_size)
           \/ /\ n > dynamic_space_size
              /\ ld_pos' = ld_pos + Min(ReadCount(n), dynamic_space_size)
              /\ ld_dynamic_space' = Take(read_data(n), dynamic_space_size)
              /\ ld_pc' = "lost"
              /\ UNCHANGED ld_overrun
    /\ UNCHANGED <<writerVars, ld_preamble, ld_thread_preamble, ld_i, ld_static_space,
                   ld_static_start,
                   ld_dynspace, ld_page_table, ld_card_table_nbits, ld_card_mark,
                   ldImmVars, ldThreadVars, ld_globals, ld_generations>>

\* As load_page_table, but the table is cleared again after it was read (the
\* tables are allocated after the read instead of before).
load_page_table_Cleared ==
    /\ ld_pc = "l_page_table"
    /\ checked_read(P_dynspace_npages(ld_preamble), "l_card_mark")
    /\ ld_page_table' = Zeros(Len(read_data(P_dynspace_npages(ld_preamble))))
    /\ UNCHANGED <<writerVars, ld_preamble, ld_thread_preamble, ld_i, ld_static_space,
                   ld_static_start,
                   ld_dynspace, ld_dynamic_space, ld_card_table_nbits, ld_card_mark,
                   ldImmVars, ldThreadVars, ld_globals, ld_generations, ld_overrun>>

\* generations[g].bytes_allocated as recompute_gen_bytes_allocated leaves it:
\* the cells in use on the pages of pt that are not free and belong to g.
RECURSIVE recompute_gen_bytes_allocated(_, _)
recompute_gen_bytes_allocated(pt, g) ==
    IF pt = <<>> THEN 0
    ELSE (IF pte_type(Head(pt)) % OPEN_REGION_PAGE_FLAG # 0 /\ g = 0
          THEN pte_words_used(Head(pt)) ELSE 0)
         + recompute_gen_bytes_allocated(Tail(pt), g)

\* As load_page_table, but the byte counts of ldb are left as they were.
load_page_table_NoRecompute ==
    /\ ld_pc = "l_page_table"
    /\ checked_read(P_dynspace_npages(ld_preamble), "l_card_mark")
    /\ ld_page_table' = read_data(P_dynspace_npages(ld_preamble))
    /\ UNCHANGED <<writerVars, ld_preamble, ld_thread_preamble, ld_i, ld_static_space,
                   ld_static_start,
                   ld_dynspace, ld_dynamic_space, ld_card_table_nbits, ld_card_mark,
                   ldImmVars, ldThreadVars, ld_globals, ld_generations, ld_overrun>>

\* checked_read(fd, page_table, ...); recompute_gen_bytes_allocated().  The
\* count is not compared with the 1 + page_table_pages entries allocated.
load_page_table ==
    /\ ld_pc = "l_page_table"
    /\ checked_read(P_dynspace_npages(ld_preamble), "l_card_mark")
    /\ ld_page_table' = read_data(P_dynspace_npages(ld_preamble))
    /\ ld_overrun' = (ld_overrun \/ ReadCount(P_dynspace_npages(ld_preamble))
                                        > 1 + page_table_pages)
    /\ ld_generations' =
          IF ReadCount(P_dynspace_npages(ld_preamble)) # P_dynspace_npages(ld_preamble)
          THEN ld_generations
          ELSE [g \in Generations |->
                   recompute_gen_bytes_allocated(
                       read_data(P_dynspace_npages(ld_preamble)), g)]
    /\ UNCHANGED <<writerVars, ld_preamble, ld_thread_preamble, ld_i, ld_static_space,
                   ld_static_start,
                   ld_dynspace, ld_dynamic_space, ld_card_table_nbits, ld_card_mark,
                   ldImmVars, ldThreadVars, ld_globals>>

\* A reader that takes one card mark per dynamic-space page in use.
load_card_mark_PerPageInUse ==
    /\ ld_pc = "l_card_mark"
    /\ checked_read(P_dynspace_npages(ld_preamble), "l_map_immobile")
    /\ ld_card_mark' = PutAt(ld_card_mark, 0, read_data(P_dynspace_npages(ld_preamble)))
    /\ UNCHANGED <<writerVars, ld_preamble, ld_thread_preamble, ld_i, ld_static_space,
                   ld_static_start,
                   ld_dynspace, ld_dynamic_space, ld_page_table, ld_card_table_nbits,
                   ldImmVars, ldThreadVars, ld_globals, ld_generations, ld_overrun>>

\* checked_read(fd, gc_card_mark, 1+gc_card_table_mask)
load_card_mark ==
    /\ ld_pc = "l_card_mark"
    /\ checked_read(2 ^ ld_card_table_nbits, "l_map_immobile")
    /\ ld_card_mark' = PutAt(ld_card_mark, 0, read_data(2 ^ ld_card_table_nbits))
    /\ UNCHANGED <<writerVars, ld_preamble, ld_thread_preamble, ld_i, ld_static_space,
                   ld_static_start,
                   ld_dynspace, ld_dynamic_space, ld_page_table, ld_card_table_nbits,
                   ldImmVars, ldThreadVars, ld_globals, ld_generations, ld_overrun>>

\* What is found at a requested address after os_validate, whose result
\* load_gc_crashdump does not look at for the two immobile spaces:
\* "mapped" the new mapping, "foreign" a mapping that was there before (the
\* request could not be placed there).
MapOutcomes == {"mapped", "foreign"}

\* The size assertions, the two os_validate calls, gc_init_immobile.
load_map_immobile ==
    /\ ld_pc = "l_map_immobile"
    /\ IF    P_fixedobj_size(ld_preamble) # FIXEDOBJ_SPACE_SIZE
          \/ P_varyobj_size(ld_preamble) # VARYOBJ_SPACE_SIZE
       THEN /\ ld_pc' = "lost"
            /\ UNCHANGED <<ld_fixedobj_map, ld_varyobj_map, ld_fixedobj_pages,
                           ld_touched_bits, ld_varyobj_pages>>
       ELSE /\ ld_pc' = "l_fixedobj"
            /\ ld_fixedobj_map' \in MapOutcomes
            /\ ld_varyobj_map' \in MapOutcomes
            /\ ld_fixedobj_pages' = Zeros(TotalNPagesFixedobj)
            /\ ld_touched_bits' = Zeros(NBitmapElts)
            /\ ld_varyobj_pages' = Zeros(TotalNPagesVaryobj)
    /\ UNCHANGED <<writerVars, ld_pos, ld_preamble, ld_thread_preamble, ld_i, ldHeapVars,
                   ld_fixedobj_space, ld_varyobj_space, ld_foreign_clobbered,
                   ldThreadVars, ld_globals, ld_generations, ld_overrun>>

fixedobj_usage == P_fixedobj_free_pointer(ld_preamble) - P_fixedobj_start(ld_preamble)
varyobj_usage == P_varyobj_free_pointer(ld_preamble) - P_varyobj_start(ld_preamble)

load_fixedobj ==
    /\ ld_pc = "l_fixedobj"
    /\ checked_read(fixedobj_usage, "l_fixedobj_pages")
    /\ ld_fixedobj_space' = read_data(fixedobj_usage)
    /\ ld_foreign_clobbered' =
          (ld_foreign_clobbered \/ (ld_fixedobj_map = "foreign" /\ ReadCount(fixedobj_usage) > 0))
    /\ UNCHANGED <<writerVars, ld_preamble, ld_thread_preamble, ld_i, ldHeapVars,
                   ld_fixedobj_map, ld_fixedobj_pages, ld_varyobj_map, ld_varyobj_space,
                   ld_touched_bits, ld_varyobj_pages, ldThreadVars, ld_globals, ld_generations, ld_overrun>>

load_fixedobj_pages ==
    /\ ld_pc = "l_fixedobj_pages"
    /\ checked_read(TotalNPagesFixedobj, "l_varyobj")
    /\ ld_fixedobj_pages' = PutAt(ld_fixedobj_pages, 0, read_data(TotalNPagesFixedobj))
    /\ UNCHANGED <<writerVars, ld_preamble, ld_thread_preamble, ld_i, ldHeapVars,
                   ld_fixedobj_map, ld_fixedobj_space, ld_varyobj_map, ld_varyobj_space,
                   ld_touched_bits, ld_varyobj_pages, ld_foreign_clobbered,
                   ldThreadVars, ld_globals, ld_generations, ld_overrun>>

load_varyobj ==
    /\ ld_pc = "l_varyobj"
    /\ checked_read(varyobj_usage, "l_touched_bits")
    /\ ld_varyobj_space' = read_data(varyobj_usage)
    /\ ld_foreign_clobbered' =
          (ld_foreign_clobbered \/ (ld_varyobj_map = "foreign" /\ ReadCount(varyobj_usage) > 0))
    /\ UNCHANGED <<writerVars, ld_preamble, ld_thread_preamble, ld_i, ldHeapVars,
                   ld_fixedobj_map, ld_fixedobj_space, ld_fixedobj_pages, ld_varyobj_map,
                   ld_touched_bits, ld_varyobj_pages, ldThreadVars, ld_globals, ld_generations, ld_overrun>>

load_touched_bits ==
    /\ ld_pc = "l_touched_bits"
    /\ checked_read(NBitmapElts, "l_varyobj_pages")
    /\ ld_touched_bits' = PutAt(ld_touched_bits, 0, read_data(NBitmapElts))
    /\ UNCHANGED <<writerVars, ld_preamble, ld_thread_preamble, ld_i, ldHeapVars,
                   ld_fixedobj_map, ld_fixedobj_space, ld_fixedobj_pages, ld_varyobj_map,
                   ld_varyobj_space, ld_varyobj_pages, ld_foreign_clobbered,
                   ldThreadVars, ld_globals, ld_generations, ld_overrun>>

load_varyobj_pages ==
    /\ ld_pc = "l_varyobj_pages"
    /\ checked_read(TotalNPagesVaryobj,
                    IF 0 < P_nthreads(ld_preamble) THEN "l_thread_preamble" ELSE "l_trailer")
    /\ ld_varyobj_pages' = PutAt(ld_varyobj_pages, 0, read_data(TotalNPagesVaryobj))
    /\ ld_i' = 0
    /\ UNCHANGED <<writerVars, ld_preamble, ld_thread_preamble, ldHeapVars,
                   ld_fixedobj_map, ld_fixedobj_space, ld_fixedobj_pages, ld_varyobj_map,
                   ld_varyobj_space, ld_touched_bits, ld_foreign_clobbered,
                   ldThreadVars, ld_globals, ld_generations, ld_overrun>>


\* alloc_thread_struct(0, 0): a fresh thread structure with stacks of its own.
alloc_thread_struct(i) ==
    [ addr |-> 60 + i,
      control_stack_end |-> 200 + 10 * i,
      cs |-> <<>>,
      context |-> <<>>,
      bs |-> <<>>,
      tls |-> [k \in 1..(ThreadStructWords - 1) |-> 60 + i] \o <<0, 0, 0>>,
      prev |-> 0,                            \* addresses of the neighbours in
      next |-> 0 ]                           \* the list of threads, 0 for none

TP_address(tp) == tp[1]
TP_has_context(tp) == tp[2]
TP_control_stack_nbytes(tp) == tp[3]
TP_binding_stack_nbytes(tp) == tp[4]

\* th->prev = 0; th->next = threads; if (threads) threads->prev = th;
\* threads = th
push_thread(th, list) ==
    IF list = <<>> THEN <<[th EXCEPT !.prev = 0, !.next = 0]>>
    ELSE <<[th EXCEPT !.prev = 0, !.next = list[1].addr]>>
         \o [list EXCEPT ![1].prev = th.addr]

\* As load_thread_preamble, but the thread is linked into all_threads itself.
load_thread_preamble_GlobalList ==
    /\ ld_pc = "l_thread_preamble"
    /\ ld_threads' = push_thread(alloc_thread_struct(ld_i), ld_threads)
    /\ all_threads' = push_thread(alloc_thread_struct(ld_i), ld_threads)
    /\ checked_read(ThreadPreambleCells, "l_context")
    /\ ld_thread_preamble' = read_data(ThreadPreambleCells)
    /\ UNCHANGED <<writerVars, ld_preamble, ld_i, ldHeapVars, ldImmVars, ld_scan, ld_globals, ld_generations, ld_overrun>>

\* As load_thread_preamble, but the former head keeps its prev.
load_thread_preamble_NoBackLink ==
    /\ ld_pc = "l_thread_preamble"
    /\ ld_threads' = <<[alloc_thread_struct(ld_i) EXCEPT
                           !.next = IF ld_threads = <<>> THEN 0 ELSE ld_threads[1].addr]>>
                     \o ld_threads
    /\ checked_read(ThreadPreambleCells, "l_context")
    /\ ld_thread_preamble' = read_data(ThreadPreambleCells)
    /\ UNCHANGED <<writerVars, ld_preamble, ld_i, ldHeapVars, ldImmVars, all_threads,
                   ld_scan, ld_globals, ld_generations, ld_overrun>>

\* Top of the loop body: allocate the thread, push it on the front of the
\* local list, read the thread preamble.
load_thread_preamble ==
    /\ ld_pc = "l_thread_preamble"
    /\ ld_threads' = push_thread(alloc_thread_struct(ld_i), ld_threads)
    /\ checked_read(ThreadPreambleCells, "l_context")
    /\ ld_thread_preamble' = read_data(ThreadPreambleCells)
    /\ UNCHANGED <<writerVars, ld_preamble, ld_i, ldHeapVars, ldImmVars, all_threads,
                   ld_scan, ld_globals, ld_generations, ld_overrun>>

stackptr == ld_threads[1].control_stack_end - TP_control_stack_nbytes(ld_thread_preamble)

\* os_context_t *contexts[10]
ContextsCapacity == 10

\* As load_context, but the registers stay as they were read.
load_context_KeepsSp ==
    /\ ld_pc = "l_context"
    /\ \/ /\ IF TP_has_context(ld_thread_preamble) # 0
             THEN /\ checked_read(P_sizeof_context(ld_preamble), "l_control_stack")
                  /\ ld_threads' =
                        [ld_threads EXCEPT ![1].context =
                            IF ReadCount(P_sizeof_context(ld_preamble)) = 0
                            THEN <<stackptr>>
                            ELSE read_data(P_sizeof_context(ld_preamble))]
             ELSE /\ \E garbage \in [1..P_sizeof_context(ld_preamble) -> Byte] :
                        ld_threads' = [ld_threads EXCEPT ![1].context =
                                           [garbage EXCEPT ![1] = stackptr]]
                  /\ ld_pc' = "l_control_stack"
                  /\ UNCHANGED ld_pos
          /\ ld_overrun' = (ld_overrun \/ ld_i >= ContextsCapacity)
       \/ /\ ld_i >= ContextsCapacity
          /\ ld_overrun' = TRUE
          /\ ld_pc' = "lost"
          /\ UNCHANGED <<ld_pos, ld_threads>>
    /\ UNCHANGED <<writerVars, ld_preamble, ld_thread_preamble, ld_i, ldHeapVars, ldImmVars,
                   all_threads, ld_scan, ld_globals, ld_generations>>

\* context = contexts[i] = malloc(sizeof_context); the snapshot is read into
\* it if the thread has one; its stack pointer register is set to stackptr.
\* The index i is not compared with the length of contexts: from the eleventh
\* record on the pointer is stored past the end of the array, after which the
\* load goes on or ldb crashes.
load_context ==
    /\ ld_pc = "l_context"
    /\ \/ /\ IF TP_has_context(ld_thread_preamble) # 0
             THEN /\ checked_read(P_sizeof_context(ld_preamble), "l_control_stack")
                  /\ ld_threads' =
                        [ld_threads EXCEPT ![1].context =
                            IF ReadCount(P_sizeof_context(ld_preamble)) = 0
                            THEN <<stackptr>>
                            ELSE [read_data(P_sizeof_context(ld_preamble))
                                     EXCEPT ![1] = stackptr]]
             ELSE /\ \E garbage \in [1..P_sizeof_context(ld_preamble) -> Byte] :
                        ld_threads' = [ld_threads EXCEPT ![1].context =
                                           [garbage EXCEPT ![1] = stackptr]]
                  /\ ld_pc' = "l_control_stack"
                  /\ UNCHANGED ld_pos
          /\ ld_overrun' = (ld_overrun \/ ld_i >= ContextsCapacity)
       \/ /\ ld_i >= ContextsCapacity
          /\ ld_overrun' = TRUE
          /\ ld_pc' = "lost"
          /\ UNCHANGED <<ld_pos, ld_threads>>
    /\ UNCHANGED <<writerVars, ld_preamble, ld_thread_preamble, ld_i, ldHeapVars, ldImmVars,
                   all_threads, ld_scan, ld_globals, ld_generations>>

\* checked_read(fd, stackptr, thread_preamble.control_stack_nbytes)
load_control_stack ==
    /\ ld_pc = "l_control_stack"
    /\ checked_read(TP_control_stack_nbytes(ld_thread_preamble), "l_binding_stack")
    /\ ld_threads' = [ld_threads EXCEPT ![1].cs =
                          read_data(TP_control_stack_nbytes(ld_thread_preamble))]
    /\ UNCHANGED <<writerVars, ld_preamble, ld_thread_preamble, ld_i, ldHeapVars, ldImmVars,
                   all_threads, ld_scan, ld_globals, ld_generations, ld_overrun>>

load_binding_stack ==
    /\ ld_pc = "l_binding_stack"
    /\ checked_read(TP_binding_stack_nbytes(ld_thread_preamble), "l_tls")
    /\ ld_threads' = [ld_threads EXCEPT ![1].bs =
                          read_data(TP_binding_stack_nbytes(ld_thread_preamble))]
    /\ UNCHANGED <<writerVars, ld_preamble, ld_thread_preamble, ld_i, ldHeapVars, ldImmVars,
                   all_threads, ld_scan, ld_globals, ld_generations, ld_overrun>>

\* skip = sizeof dummy - N_WORD_BYTES cells are read into dummy, the other
\* tls_size - skip cells are read to &th->lisp_thread, and then
\* *free-interrupt-context-index* of the thread is set to 1.
skip == ThreadStructWords - 1

\* As load_tls, but the whole block is read to the start of the thread
\* structure.
load_tls_WholeBlock ==
    /\ ld_pc = "l_tls"
    /\ checked_read(P_tls_size(ld_preamble), "l_scan")
    /\ ld_threads' =
          [ld_threads EXCEPT ![1].tls =
              IF ReadCount(P_tls_size(ld_preamble)) = P_tls_size(ld_preamble)
              THEN [PutAt(@, 0, read_data(P_tls_size(ld_preamble))) EXCEPT
                       ![FREE_INTERRUPT_CONTEXT_INDEX] = make_fixnum(1)]
              ELSE @]
    /\ UNCHANGED <<writerVars, ld_preamble, ld_thread_preamble, ld_i, ldHeapVars, ldImmVars,
                   all_threads, ld_scan, ld_globals, ld_generations, ld_overrun>>

load_tls ==
    /\ ld_pc = "l_tls"
    /\ LET rest == P_tls_size(ld_preamble) - skip
           got_skip == ReadCount(skip) = skip
           got == IF got_skip
                  THEN SubSeq(image, ld_pos + skip + 1,
                              IF rest < 0 THEN Len(image)
                              ELSE Min(ld_pos + skip + rest, Len(image)))
                  ELSE <<>>
           complete == got_skip /\ rest >= 0 /\ Len(got) = rest
       IN  /\ ld_pos' = ld_pos + ReadCount(skip) + Len(got)
           /\ ld_threads' =
                 [ld_threads EXCEPT ![1].tls =
                     IF complete
                     THEN [PutAt(@, skip, got) EXCEPT
                              ![FREE_INTERRUPT_CONTEXT_INDEX] = make_fixnum(1)]
                     ELSE PutAt(@, skip, got)]
           /\ ld_pc' = IF ~ complete THEN "lost" ELSE "l_scan"
    /\ UNCHANGED <<writerVars, ld_preamble, ld_thread_preamble, ld_i, ldHeapVars, ldImmVars,
                   all_threads, ld_scan, ld_globals, ld_generations, ld_overrun>>

\* ----------------------------------------- the scan of a restored stack
\* A page-table entry as the search reads it.  The entries of the image carry
\* no scan start offset: every object of the dumping process is one cell.
PteRecord(type, words_used, scan_start_offset) ==
    [type |-> type, words_used |-> words_used, scan_start_offset |-> scan_start_offset]

page_free_p(pte) == pte.type % OPEN_REGION_PAGE_FLAG = 0
is_code(type) == type % OPEN_REGION_PAGE_FLAG = PAGE_TYPE_CODE

\* A word is a pointer by its low tag bit.
is_lisp_pointer(word) == word % 2 = 1

\* find_page_index: the page of an address, counted from 1; 0 for an address
\* below the space.
find_page_index(base, addr) ==
    IF addr < base THEN 0 ELSE (addr - base) \div GENCGC_PAGE_BYTES + 1

\* The cell at an address is the header of an object if it is not 0, and is
\* then the number of cells of the object.  Walk the objects from start: the
\* one that contains word is found; the walk stops, with nothing found, when
\* it has passed word, reached limit or met a cell that is no header.
RECURSIVE gc_search_space(_, _, _, _, _)
gc_search_space(space, base, start, limit, word) ==
    IF start > word \/ start >= limit \/ start - base + 1 > Len(space) THEN 0
    ELSE LET size == space[start - base + 1]
         IN  IF size = 0 THEN 0
             ELSE IF word < start + size THEN start
             ELSE gc_search_space(space, base, start + size, limit, word)

\* search_dynamic_space: nothing on a page that is free or outside the table;
\* otherwise the walk begins at the scan start of the page of word and ends at
\* the words used on that page.
search_dynamic_space_FromPageStart(space, pt, base, word) ==
    LET page == find_page_index(base, word)
    IN  IF page \notin 1..Len(pt) THEN 0
        ELSE IF page_free_p(pt[page]) THEN 0
        ELSE gc_search_space(space, base,
                 base + (page - 1) * GENCGC_PAGE_BYTES,
                 base + (page - 1) * GENCGC_PAGE_BYTES + pt[page].words_used, word)

search_dynamic_space(space, pt, base, word) ==
    LET page == find_page_index(base, word)
    IN  IF page \notin 1..Len(pt) THEN 0
        ELSE IF page_free_p(pt[page]) THEN 0
        ELSE gc_search_space(space, base,
                             base + (page - 1) * GENCGC_PAGE_BYTES
                                  - pt[page].scan_start_offset,
                             base + (page - 1) * GENCGC_PAGE_BYTES + pt[page].words_used,
                             word)

\* The page table of ldb: gc_allocate_ptes cleared dynamic_space_size /
\* GENCGC_PAGE_BYTES entries, the first next_free_page were read from the image.
ld_pte(page) ==
    IF page \in 1..Len(ld_page_table)
    THEN PteRecord(pte_type(ld_page_table[page]), pte_words_used(ld_page_table[page]), 0)
    ELSE PteRecord(0, 0, 0)

ld_ptes == [page \in 1..(dynamic_space_size \div GENCGC_PAGE_BYTES) |-> ld_pte(page)]

\* A test that takes words with pointer tag bits only.
scan_candidate_TaggedOnly(word) ==
    /\ P_dynspace_start(ld_preamble) <= word
    /\ word < P_dynspace_start(ld_preamble) + dynamic_space_size
    /\ is_lisp_pointer(word)

\* The test of line 987: the word is inside dynamic space and is a pointer or
\* points to a page of code.
scan_candidate(word) ==
    /\ P_dynspace_start(ld_preamble) <= word
    /\ word < P_dynspace_start(ld_preamble) + dynamic_space_size
    /\ \/ is_lisp_pointer(word)
       \/ is_code(ld_pte(find_page_index(P_dynspace_start(ld_preamble), word)).type)

scan_found(word) ==
    search_dynamic_space(ld_dynamic_space, ld_ptes, P_dynspace_start(ld_preamble), word) # 0

\* <<n_definitely_valid, n_dangling>> after the loop over the words of stack.
scan_counts(stack) ==
    << Cardinality({k \in 1..Len(stack) : scan_candidate(stack[k]) /\ scan_found(stack[k])}),
       Cardinality({k \in 1..Len(stack) : scan_candidate(stack[k]) /\ ~ scan_found(stack[k])}) >>

\* As load_scan, but a word that is not found ends the load.
load_scan_DanglingFatal ==
    /\ ld_pc = "l_scan"
    /\ ld_scan' = <<scan_counts(ld_threads[1].cs)>> \o ld_scan
    /\ ld_i' = ld_i + 1
    /\ ld_pc' = IF scan_counts(ld_threads[1].cs)[2] > 0 THEN "lost"
                ELSE IF ld_i + 1 < P_nthreads(ld_preamble) THEN "l_thread_preamble"
                ELSE "l_trailer"
    /\ UNCHANGED <<writerVars, ld_pos, ld_preamble, ld_thread_preamble, ldHeapVars, ldImmVars,
                   ld_threads, all_threads, ld_globals, ld_generations, ld_overrun>>

\* The rest of the loop body: the words of the restored control stack are
\* looked up and counted, the counts are printed, the loop goes on.
load_scan ==
    /\ ld_pc = "l_scan"
    /\ ld_scan' = <<scan_counts(ld_threads[1].cs)>> \o ld_scan
    /\ ld_i' = ld_i + 1
    /\ ld_pc' = IF ld_i + 1 < P_nthreads(ld_preamble) THEN "l_thread_preamble"
                ELSE "l_trailer"
    /\ UNCHANGED <<writerVars, ld_pos, ld_preamble, ld_thread_preamble, ldHeapVars, ldImmVars,
                   ld_threads, all_threads, ld_globals, ld_generations, ld_overrun>>

\* As load_trailer, but what was read is not looked at.
load_trailer_Unchecked ==
    /\ ld_pc = "l_trailer"
    /\ ld_pos' = ld_pos + ReadCount(Len(TrailingSignature))
    /\ ld_pc' = "returned"
    /\ all_threads' = ld_threads
    /\ UNCHANGED <<writerVars, ld_preamble, ld_thread_preamble, ld_i, ldHeapVars, ldImmVars,
                   ld_threads, ld_scan, ld_globals, ld_generations, ld_overrun>>

\* As load_trailer, but without the read that must find the end of the file.
load_trailer_NoEofCheck ==
    /\ ld_pc = "l_trailer"
    /\ ld_pos' = ld_pos + ReadCount(Len(TrailingSignature))
    /\ IF /\ ReadCount(Len(TrailingSignature)) = Len(TrailingSignature)
          /\ read_data(Len(TrailingSignature)) = TrailingSignature
       THEN /\ ld_pc' = "returned"
            /\ all_threads' = ld_threads
       ELSE /\ ld_pc' = "lost"
            /\ UNCHANGED all_threads
    /\ UNCHANGED <<writerVars, ld_preamble, ld_thread_preamble, ld_i, ldHeapVars, ldImmVars,
                   ld_threads, ld_scan, ld_globals, ld_generations, ld_overrun>>

\* The trailing signature is read and compared, one more byte must not be
\* readable, and only then all_threads = threads.
load_trailer ==
    /\ ld_pc = "l_trailer"
    /\ ld_pos' = ld_pos + ReadCount(Len(TrailingSignature))
    /\ IF /\ ReadCount(Len(TrailingSignature)) = Len(TrailingSignature)
          /\ read_data(Len(TrailingSignature)) = TrailingSignature
          /\ ld_pos + Len(TrailingSignature) = Len(image)
       THEN /\ ld_pc' = "returned"
            /\ all_threads' = ld_threads
       ELSE /\ ld_pc' = "lost"
            /\ UNCHANGED all_threads
    /\ UNCHANGED <<writerVars, ld_preamble, ld_thread_preamble, ld_i, ldHeapVars, ldImmVars,
                   ld_threads, ld_scan, ld_globals, ld_generations, ld_overrun>>

\* ------------------------------------------------------------ specification
Mutator ==
    \E t \in 1..MaxThreads :
        \/ MutatorPush(t)
        \/ MutatorBind(t)
        \/ MutatorAlloc(t)
        \/ MutatorStoreStatic(t)
        \/ MutatorAllocFixedobj(t)
        \/ MutatorAllocVaryobj(t)
        \/ CollectorAlloc(t)

save_cmd ==
    \/ suspend_stop_the_world
    \/ suspend_close_thread_regions
    \/ suspend_close_collector_regions
    \/ save_open
    \/ save_preamble
    \/ save_static
    \/ save_dynamic
    \/ save_page_table
    \/ save_card_mark
    \/ save_fixedobj
    \/ save_fixedobj_pages
    \/ save_varyobj
    \/ save_touched_bits
    \/ save_varyobj_pages
    \/ save_thread_preamble
    \/ save_context
    \/ save_control_stack
    \/ save_binding_stack
    \/ save_tls
    \/ save_trailer
    \/ unsuspend_other_threads

load_gc_crashdump ==
    \/ load_preamble
    \/ load_static
    \/ load_map_dynamic
    \/ load_dynamic
    \/ load_page_table
    \/ load_card_mark
    \/ load_map_immobile
    \/ load_fixedobj
    \/ load_fixedobj_pages
    \/ load_varyobj
    \/ load_touched_bits
    \/ load_varyobj_pages
    \/ load_thread_preamble
    \/ load_context
    \/ load_control_stack
    \/ load_binding_stack
    \/ load_tls
    \/ load_scan
    \/ load_trailer

\* ldb is started on the file of a capture all of whose writes were complete.
\* The restore of a file that a short write has cut is followed in SpecTamper.
HandOverComplete ==
    /\ ~ short_write
    /\ HandOver

Next ==
    \/ Mutator
    \/ save_cmd
    \/ HandOverComplete
    \/ load_gc_crashdump

Spec == Init /\ [][Next]_vars


\* ------------------------------------------- images that are not as written
\* The same capture and restore, started from a process whose regions and
\* stacks all hold something, and with ldb given a file that was cut short,
\* extended, or changed in its leading signature or its trailing signature.
PresetThread(t, ici) ==
    [InitialThread(t, ici) EXCEPT
        !.cs = <<t % 2>>,
        !.bs = <<1>>,
        !.tls[nbytes_tls] = 1,
        !.context = IF ici = 0 THEN <<>> ELSE ContextAt(100 + 10 * t - 1)]

InitTamper ==
    /\ static_space = <<0, 1>>
    /\ next_free_page = 1
    /\ dynamic_space = <<1>> \o Zeros(GENCGC_PAGE_BYTES - 1)
    /\ page_table = <<pte_make(PAGE_TYPE_BOXED, 1)>>
    /\ gc_card_table_nbits = CardTableNBitsAtSave
    /\ gc_card_mark = [Zeros(2 ^ gc_card_table_nbits) EXCEPT ![1] = 1]
    /\ fixedobj_space = <<1>>
    /\ fixedobj_pages = [Zeros(TotalNPagesFixedobj) EXCEPT ![1] = 1]
    /\ varyobj_space = <<1>>
    /\ varyobj_page_touched_bits = [Zeros(NBitmapElts) EXCEPT ![1] = 1]
    /\ varyobj_pages = [Zeros(TotalNPagesVaryobj) EXCEPT ![1] = 1]
    /\ \E n \in 1..MaxThreads : \E self_ici \in {0, 1} :
          threads = [t \in 1..n |-> PresetThread(t, IF t = n THEN self_ici ELSE 0)]
    /\ InitWriter
    /\ InitLoader
    /\ UnitIdle

GiveImage(img, how) ==
    /\ pc = "done"
    /\ ld_pc = "idle"
    /\ image' = img
    /\ tamper' = how
    /\ ld_pc' = "l_preamble"
    /\ UNCHANGED <<heapVars, procVars, pc, th_i, fileVars, captured,
                   ld_pos, ld_preamble, ld_thread_preamble, ld_i,
                   ldHeapVars, ldImmVars, ldThreadVars, ld_globals, ld_generations, ld_overrun>>

Truncate == \E k \in 0..(Len(file) - 1) : GiveImage(Take(file, k), "truncated")

Extend == \E b \in Byte : GiveImage(Append(file, b), "extended")

OtherSignatures == {0, CRASH_PREAMBLE_SIGNATURE + 1, SizeofCrashPreamble * 65536}

BadSignature == \E v \in OtherSignatures : GiveImage([file EXCEPT ![1] = v], "signature")

BadTrailer ==
    \E j \in 1..Len(TrailingSignature) :
        GiveImage([file EXCEPT ![Len(file) - Len(TrailingSignature) + j] = 0], "trailer")

\* An image from a build with another card size.
OtherCardSizes == {GENCGC_CARD_BYTES \div 2, GENCGC_CARD_BYTES * 2}

OtherCardSize == \E v \in OtherCardSizes : GiveImage([file EXCEPT ![6] = v], "card_size")

\* An image from a build whose static space is at another address.
OtherStaticStart ==
    \E v \in {STATIC_SPACE_START - 8, STATIC_SPACE_START + 8} :
        GiveImage([file EXCEPT ![2] = v], "static_start")

\* The card-table index width of the ldb process itself, as gc_init left it:
\* ldb is the build that wrote the image, run with the same heap size.
ReaderCardTableNBits == CardTableNBitsAtSave

\* An image from a process whose card table had 1 << nbits marks: the preamble
\* declares nbits and the card-table section has that many cells.
WithCardTableNBits(f, nbits) ==
    LET at == PreambleCells + P_static_nbytes(f)
                + P_dynspace_npages(f) * GENCGC_PAGE_BYTES + P_dynspace_npages(f)
        old == 2 ^ P_card_table_nbits(f)
    IN  [SubSeq(f, 1, at) EXCEPT ![7] = nbits]
            \o [k \in 1..(2 ^ nbits) |-> IF k <= old THEN f[at + k] ELSE 0]
            \o SubSeq(f, at + old + 1, Len(f))

OtherCardTableNBits ==
    \E nbits \in {ReaderCardTableNBits - 1, ReaderCardTableNBits + 1} :
        GiveImage(WithCardTableNBits(file, nbits), "card_table_nbits")

\* An image of a process that ran with a larger dynamic space than ldb and
\* had npages pages below next_free_page, the additional ones free.
LargerDynamicSpace ==
    \E npages \in {page_table_pages + 1, page_table_pages + 2} :
        LET a == PreambleCells + P_static_nbytes(file)
            old == P_dynspace_npages(file)
            b == a + old * GENCGC_PAGE_BYTES
        IN  GiveImage([SubSeq(file, 1, a) EXCEPT ![5] = npages]
                          \o SubSeq(file, a + 1, b)
                          \o Zeros((npages - old) * GENCGC_PAGE_BYTES)
                          \o SubSeq(file, b + 1, b + old)
                          \o Zeros(npages - old)
                          \o SubSeq(file, b + old + 1, Len(file)),
                      "dynspace_npages")

NextTamper ==
    \/ save_cmd
    \/ HandOver
    \/ Truncate
    \/ Extend
    \/ BadSignature
    \/ BadTrailer
    \/ OtherCardSize
    \/ OtherCardTableNBits
    \/ OtherStaticStart
    \/ LargerDynamicSpace
    \/ load_gc_crashdump

SpecTamper == InitTamper /\ [][NextTamper]_vars


\* --------------------------------------------- the three-thread scenario
\* A capture and restore of a process with three threads.  Dynamic space has
\* a full page of boxed objects and a page of code with one object; the oldest
\* stack word of the first thread is any address from just below dynamic space
\* to just above it, its newest word points into the first page.
ScanWords == (DynamicSpaceStartAtSave - 1)..(DynamicSpaceStartAtSave + dynamic_space_size)

ScenarioThread(t, ici, stack) ==
    [InitialThread(t, ici) EXCEPT
        !.cs = stack,
        !.bs = <<1>>,
        !.tls[nbytes_tls] = 1,
        !.context = IF ici = 0 THEN <<>> ELSE ContextAt(100 + 10 * t - Len(stack))]

InitScenario ==
    /\ static_space = <<0, 1>>
    /\ next_free_page = 2
    /\ dynamic_space = [k \in 1..GENCGC_PAGE_BYTES |-> 1] \o <<1>> \o Zeros(GENCGC_PAGE_BYTES - 1)
    /\ page_table = <<pte_make(PAGE_TYPE_BOXED, GENCGC_PAGE_BYTES), pte_make(PAGE_TYPE_CODE, 1)>>
    /\ gc_card_table_nbits = CardTableNBitsAtSave
    /\ gc_card_mark = [Zeros(2 ^ gc_card_table_nbits) EXCEPT ![1] = 1]
    /\ fixedobj_space = <<>>
    /\ fixedobj_pages = Zeros(TotalNPagesFixedobj)
    /\ varyobj_space = <<1>>
    /\ varyobj_page_touched_bits = [Zeros(NBitmapElts) EXCEPT ![1] = 1]
    /\ varyobj_pages = [Zeros(TotalNPagesVaryobj) EXCEPT ![1] = 1]
    /\ \E w \in ScanWords : \E self_ici \in {0, 1} :
          threads = << ScenarioThread(1, 0, <<DynamicSpaceStartAtSave + 1, w>>),
                       ScenarioThread(2, 0, <<0>>),
                       ScenarioThread(3, self_ici, <<1>>) >>
    /\ InitWriter
    /\ InitLoader
    /\ UnitIdle

NextScenario ==
    \/ save_cmd
    \/ HandOver
    \/ load_gc_crashdump

SpecScenario == InitScenario /\ [][NextScenario]_vars


\* ------------------------------------- more threads than contexts has room for
\* A capture, with every write complete, and restore of a process with one
\* thread more than the array contexts of load_gc_crashdump has elements.
InitManyThreads ==
    /\ static_space = <<0, 1>>
    /\ next_free_page = 1
    /\ dynamic_space = <<1>> \o Zeros(GENCGC_PAGE_BYTES - 1)
    /\ page_table = <<pte_make(PAGE_TYPE_BOXED, 1)>>
    /\ gc_card_table_nbits = CardTableNBitsAtSave
    /\ gc_card_mark = [Zeros(2 ^ gc_card_table_nbits) EXCEPT ![1] = 1]
    /\ fixedobj_space = <<>>
    /\ fixedobj_pages = Zeros(TotalNPagesFixedobj)
    /\ varyobj_space = <<>>
    /\ varyobj_page_touched_bits = Zeros(NBitmapElts)
    /\ varyobj_pages = Zeros(TotalNPagesVaryobj)
    /\ \E self_ici \in {0, 1} :
          threads = [t \in 1..(ContextsCapacity + 1) |->
                        PresetThread(t, IF t = ContextsCapacity + 1 THEN self_ici ELSE 0)]
    /\ InitWriter
    /\ InitLoader
    /\ UnitIdle

NextManyThreads ==
    \/ save_cmd /\ ~ short_write'
    \/ HandOverComplete
    \/ load_gc_crashdump

SpecManyThreads == InitManyThreads /\ [][NextManyThreads]_vars


\* --------------------------------------------- a pathname that names a file
\* The capture is given a pathname at which there may be a file already:
\* none, one shorter than the image to come, or one longer than any image.
ExistingFileCells == 600

ExistingFiles == {<<>>, Zeros(PreambleCells), Zeros(ExistingFileCells)}

InitExistingFile ==
    /\ static_space = <<0, 1>>
    /\ next_free_page = 1
    /\ dynamic_space = <<1>> \o Zeros(GENCGC_PAGE_BYTES - 1)
    /\ page_table = <<pte_make(PAGE_TYPE_BOXED, 1)>>
    /\ gc_card_table_nbits = CardTableNBitsAtSave
    /\ gc_card_mark = [Zeros(2 ^ gc_card_table_nbits) EXCEPT ![1] = 1]
    /\ fixedobj_space = <<1>>
    /\ fixedobj_pages = [Zeros(TotalNPagesFixedobj) EXCEPT ![1] = 1]
    /\ varyobj_space = <<1>>
    /\ varyobj_page_touched_bits = [Zeros(NBitmapElts) EXCEPT ![1] = 1]
    /\ varyobj_pages = [Zeros(TotalNPagesVaryobj) EXCEPT ![1] = 1]
    /\ \E n \in 1..MaxThreads : \E self_ici \in {0, 1} :
          threads = [t \in 1..n |-> PresetThread(t, IF t = n THEN self_ici ELSE 0)]
    /\ UnitIdle
    /\ collector_region = 0
    /\ nmut = 0
    /\ pc = "run"
    /\ th_i = 0
    /\ file \in ExistingFiles
    /\ wpos = 0
    /\ captured = <<>>
    /\ short_write = FALSE
    /\ InitLoader

NextExistingFile ==
    \/ save_cmd
    \/ HandOver
    \/ load_gc_crashdump

SpecExistingFile == InitExistingFile /\ [][NextExistingFile]_vars


\* ------------------------------------------------------ a capture made twice
\* save_gc_crashdump is executed twice on the same stopped process, the second
\* time on another pathname; what the stack holds under the two calls is free.
InitDeterminism ==
    /\ static_space = <<0, 1>>
    /\ next_free_page = 1
    /\ dynamic_space = <<1>> \o Zeros(GENCGC_PAGE_BYTES - 1)
    /\ page_table = <<pte_make(PAGE_TYPE_BOXED, 1)>>
    /\ gc_card_table_nbits = CardTableNBitsAtSave
    /\ gc_card_mark = [Zeros(2 ^ gc_card_table_nbits) EXCEPT ![1] = 1]
    /\ fixedobj_space = <<1>>
    /\ fixedobj_pages = [Zeros(TotalNPagesFixedobj) EXCEPT ![1] = 1]
    /\ varyobj_space = <<1>>
    /\ varyobj_page_touched_bits = [Zeros(NBitmapElts) EXCEPT ![1] = 1]
    /\ varyobj_pages = [Zeros(TotalNPagesVaryobj) EXCEPT ![1] = 1]
    /\ \E n \in 1..MaxThreads : \E self_ici \in {0, 1} :
          threads = [t \in 1..n |-> PresetThread(t, IF t = n THEN self_ici ELSE 0)]
    /\ InitWriter
    /\ InitLoader
    /\ SearchIdle
    /\ RBIdle
    /\ GcTestsIdle
    /\ DecodeIdle
    /\ preamble_frame \in Byte
    /\ first_capture = <<>>

\* The first capture has returned to save_cmd; before the world is restarted
\* save_gc_crashdump is called again.
SaveAgain ==
    /\ pc = "unsuspend"
    /\ first_capture = <<>>
    /\ first_capture' = <<file>>
    /\ file' = <<>>
    /\ preamble_frame' \in Byte
    /\ pc' = "save_open"
    /\ UNCHANGED <<static_space, dynamic_space, next_free_page, page_table,
                   gc_card_table_nbits, gc_card_mark, fixedobj_space, fixedobj_pages,
                   varyobj_space, varyobj_page_touched_bits, varyobj_pages,
                   searchVars, rbVars, gcTestVars, decodeVars,
                   procVars, th_i, wpos, short_write, captured, imageVars, ldVars>>

NextDeterminism ==
    \/ save_cmd
    \/ SaveAgain

SpecDeterminism == InitDeterminism /\ [][NextDeterminism]_vars


\* ------------------------------------------- the ldb command "search"
\* The state of the crash dump while a unit scenario runs.
\* The variables of the crash dump, and with them those of the command "dump".
crashDumpVars == <<static_space, dynamic_space, next_free_page, page_table,
                   gc_card_table_nbits, gc_card_mark, fixedobj_space, fixedobj_pages,
                   varyobj_space, varyobj_page_touched_bits, varyobj_pages,
                   procVars, pc, th_i, fileVars, captured, imageVars, ldVars>>
dumpVars == <<crashDumpVars, decodeVars, rerunVars>>

CrashDumpIdle ==
    /\ InitHeap
    /\ threads = <<InitialThread(1, 0)>>
    /\ InitWriter
    /\ InitLoader

DumpIdle == CrashDumpIdle /\ DecodeIdle /\ RerunIdle

\* A hand-built dynamic space of SearchPages pages.  Objects are laid out in
\* address order, each right behind the one before it or, if "aligned", at the
\* next page boundary; an object may span pages.
SearchPages == 3
MaxObjects == 2
MaxObjectWords == 5

SearchSpaceWords == SearchPages * GENCGC_PAGE_BYTES

RECURSIVE ObjectStarts(_, _)
ObjectStarts(objs, pos) ==
    IF objs = <<>> THEN <<>>
    ELSE LET at == IF Head(objs).aligned /\ pos % GENCGC_PAGE_BYTES # 0
                   THEN (pos \div GENCGC_PAGE_BYTES + 1) * GENCGC_PAGE_BYTES
                   ELSE pos
         IN  <<at>> \o ObjectStarts(Tail(objs), at + Head(objs).size)

\* Offset of the object of the layout that holds the cell at offset off, -1 if none does.
ObjectHolding(objs, off) ==
    LET starts == ObjectStarts(objs, 0)
        holds == {i \in 1..Len(objs) : starts[i] <= off /\ off < starts[i] + objs[i].size}
    IN  IF holds = {} THEN -1 ELSE starts[CHOOSE i \in holds : TRUE]

Layouts ==
    {objs \in UNION {[1..n -> [size : 1..MaxObjectWords, aligned : BOOLEAN]] : n \in 0..MaxObjects} :
        \A i \in 1..Len(objs) : ObjectStarts(objs, 0)[i] + objs[i].size <= SearchSpaceWords}

\* The cells of the space: an object's first cell is its header and holds its
\* length, its other cells hold payload that reads as the header of a one-word
\* object, free cells hold 0.
BuildSpace(objs) ==
    [k \in 1..SearchSpaceWords |->
        LET at == ObjectHolding(objs, k - 1)
        IN  IF at = -1 THEN 0
            ELSE IF at = k - 1 THEN objs[CHOOSE i \in 1..Len(objs) : ObjectStarts(objs, 0)[i] = at].size
            ELSE 1]

\* The page table of the layout: words_used counts the cells of the page that
\* belong to objects, scan_start_offset is the distance from the page back to
\* the start of the object that holds the page's first cell.
BuildPageTable(objs) ==
    [p \in 1..SearchPages |->
        LET first == (p - 1) * GENCGC_PAGE_BYTES
            used == Cardinality({off \in first..(first + GENCGC_PAGE_BYTES - 1) :
                                    ObjectHolding(objs, off) # -1})
        IN  IF used = 0 THEN PteRecord(0, 0, 0)
            ELSE PteRecord(PAGE_TYPE_BOXED, used, first - ObjectHolding(objs, first))]

InitSearch ==
    /\ DumpIdle
    /\ heap_objects \in Layouts
    /\ sr_space = BuildSpace(heap_objects)
    /\ sr_page_table = BuildPageTable(heap_objects)
    /\ sr_addr = 0
    /\ sr_out = NotFound
    /\ RBIdle
    /\ GcTestsIdle

\* search_all_gc_spaces: the hand-built space is the one space with objects.
search_all_gc_spaces(addr) ==
    search_dynamic_space(sr_space, sr_page_table, DynamicSpaceStartAtSave, addr)

\* search_cmd: parse an address, look up the object that holds it, print the
\* object or "Not found".
search_cmd ==
    \E addr \in (DynamicSpaceStartAtSave - 1)..(DynamicSpaceStartAtSave + SearchSpaceWords) :
        LET obj == search_all_gc_spaces(addr)
        IN  /\ sr_addr' = addr
            /\ sr_out' = IF obj # 0 THEN obj ELSE NotFound
            /\ UNCHANGED <<heap_objects, sr_space, sr_page_table, rbVars, gcTestVars, dumpVars>>

NextSearch == search_cmd

SpecSearch == InitSearch /\ [][NextSearch]_vars


\* ------------------------------------------------- the red-black tree
\* SB-RBTREE.MAP: a persistent red-black tree from keys to values.  insert
\* follows Okasaki, delete follows Kahrs; both build new nodes on the path
\* they walk and share the rest with the tree they were given.
MaxKey == 4

Node(c, l, k, v, r) == [color |-> c, left |-> l, key |-> k, value |-> v, right |-> r]
Paint(t, c) == [t EXCEPT !.color = c]
redp(t) == t # Leaf /\ t.color = "red"
blackp(t) == t # Leaf /\ t.color = "black"

\* A black node over l and r, with a red child that has a red child rotated away.
balance(l, k, v, r) ==
    IF redp(l) /\ redp(r)
        THEN Node("red", Paint(l, "black"), k, v, Paint(r, "black"))
    ELSE IF redp(l) /\ redp(l.left)
        THEN Node("red", Paint(l.left, "black"), l.key, l.value,
                  Node("black", l.right, k, v, r))
    ELSE IF redp(l) /\ redp(l.right)
        THEN Node("red", Node("black", l.left, l.key, l.value, l.right.left),
                  l.right.key, l.right.value,
                  Node("black", l.right.right, k, v, r))
    ELSE IF redp(r) /\ redp(r.right)
        THEN Node("red", Node("black", l, k, v, r.left), r.key, r.value,
                  Paint(r.right, "black"))
    ELSE IF redp(r) /\ redp(r.left)
        THEN Node("red", Node("black", l, k, v, r.left.left),
                  r.left.key, r.left.value,
                  Node("black", r.left.right, r.key, r.value, r.right))
    ELSE Node("black", l, k, v, r)

RECURSIVE ins_KeepsValue(_, _, _)
ins_KeepsValue(t, k, v) ==
    IF t = Leaf THEN Node("red", Leaf, k, v, Leaf)
    ELSE IF k < t.key
        THEN IF t.color = "black" THEN balance(ins_KeepsValue(t.left, k, v), t.key, t.value, t.right)
             ELSE Node("red", ins_KeepsValue(t.left, k, v), t.key, t.value, t.right)
    ELSE IF k > t.key
        THEN IF t.color = "black" THEN balance(t.left, t.key, t.value, ins_KeepsValue(t.right, k, v))
             ELSE Node("red", t.left, t.key, t.value, ins_KeepsValue(t.right, k, v))
    ELSE t

RECURSIVE ins(_, _, _)
ins(t, k, v) ==
    IF t = Leaf THEN Node("red", Leaf, k, v, Leaf)
    ELSE IF k < t.key
        THEN IF t.color = "black" THEN balance(ins(t.left, k, v), t.key, t.value, t.right)
             ELSE Node("red", ins(t.left, k, v), t.key, t.value, t.right)
    ELSE IF k > t.key
        THEN IF t.color = "black" THEN balance(t.left, t.key, t.value, ins(t.right, k, v))
             ELSE Node("red", t.left, t.key, t.value, ins(t.right, k, v))
    ELSE Node(t.color, t.left, k, v, t.right)

\* (insert tree key value): the tree with key bound to value.
insert(t, k, v) == Paint(ins(t, k, v), "black")

\* The left subtree l lost one black level: restore the balance.
balleft(l, k, v, r) ==
    IF redp(l) THEN Node("red", Paint(l, "black"), k, v, r)
    ELSE IF blackp(r) THEN balance(l, k, v, Paint(r, "red"))
    ELSE Node("red", Node("black", l, k, v, r.left.left),
              r.left.key, r.left.value,
              balance(r.left.right, r.key, r.value, Paint(r.right, "red")))

\* The right subtree r lost one black level: restore the balance.
balright(l, k, v, r) ==
    IF redp(r) THEN Node("red", l, k, v, Paint(r, "black"))
    ELSE IF blackp(l) THEN balance(Paint(l, "red"), k, v, r)
    ELSE Node("red", balance(Paint(l.left, "red"), l.key, l.value, l.right.left),
              l.right.key, l.right.value,
              Node("black", l.right.right, k, v, r))

\* The two subtrees of a deleted node, joined.
RECURSIVE app(_, _)
app(a, b) ==
    IF a = Leaf THEN b
    ELSE IF b = Leaf THEN a
    ELSE IF redp(a) /\ redp(b)
        THEN LET bc == app(a.right, b.left)
             IN  IF redp(bc)
                 THEN Node("red", Node("red", a.left, a.key, a.value, bc.left),
                           bc.key, bc.value,
                           Node("red", bc.right, b.key, b.value, b.right))
                 ELSE Node("red", a.left, a.key, a.value,
                           Node("red", bc, b.key, b.value, b.right))
    ELSE IF blackp(a) /\ blackp(b)
        THEN LET bc == app(a.right, b.left)
             IN  IF redp(bc)
                 THEN Node("red", Node("black", a.left, a.key, a.value, bc.left),
                           bc.key, bc.value,
                           Node("black", bc.right, b.key, b.value, b.right))
                 ELSE balleft(a.left, a.key, a.value,
                              Node("black", bc, b.key, b.value, b.right))
    ELSE IF redp(b) THEN Node("red", app(a, b.left), b.key, b.value, b.right)
    ELSE Node("red", a.left, a.key, a.value, app(a.right, b))

RECURSIVE del_Unbalanced(_, _)
del_Unbalanced(t, k) ==
    IF t = Leaf THEN Leaf
    ELSE IF k < t.key THEN Node("red", del_Unbalanced(t.left, k), t.key, t.value, t.right)
    ELSE IF k > t.key THEN Node("red", t.left, t.key, t.value, del_Unbalanced(t.right, k))
    ELSE app(t.left, t.right)

RECURSIVE del(_, _)
del(t, k) ==
    IF t = Leaf THEN Leaf
    ELSE IF k < t.key
        THEN IF blackp(t.left) THEN balleft(del(t.left, k), t.key, t.value, t.right)
             ELSE Node("red", del(t.left, k), t.key, t.value, t.right)
    ELSE IF k > t.key
        THEN IF blackp(t.right) THEN balright(t.left, t.key, t.value, del(t.right, k))
             ELSE Node("red", t.left, t.key, t.value, del(t.right, k))
    ELSE app(t.left, t.right)

\* (delete key tree): the tree without key.
delete(k, t) ==
    LET d == del(t, k) IN IF d = Leaf THEN Leaf ELSE Paint(d, "black")

\* (find= key tree): the node with that key, or nil.
RECURSIVE find_eq(_, _)
find_eq(k, t) ==
    IF t = Leaf THEN Leaf
    ELSE IF k < t.key THEN find_eq(k, t.left)
    ELSE IF k > t.key THEN find_eq(k, t.right)
    ELSE t

\* (find<= key tree): the node with the greatest key that is at most key, or nil.
RECURSIVE find_le_Strict(_, _)
find_le_Strict(k, t) ==
    IF t = Leaf THEN Leaf
    ELSE IF k <= t.key THEN find_le_Strict(k, t.left)
    ELSE LET found == find_le_Strict(k, t.right) IN IF found = Leaf THEN t ELSE found

RECURSIVE find_le(_, _)
find_le(k, t) ==
    IF t = Leaf THEN Leaf
    ELSE IF k < t.key THEN find_le(k, t.left)
    ELSE IF k = t.key THEN t
    ELSE LET found == find_le(k, t.right) IN IF found = Leaf THEN t ELSE found

\* ---- the test file's own functions
\* verify-invariants, first part: (< min (key node) max) at every node.
RECURSIVE bst_invariant(_, _, _)
bst_invariant(node, min, max) ==
    /\ min < node.key /\ node.key < max
    /\ node.left # Leaf => bst_invariant(node.left, min, node.key)
    /\ node.right # Leaf => bst_invariant(node.right, node.key, max)

\* black-height of the verifier; -1 where its (assert (= l r)) fails.
RECURSIVE black_height(_)
black_height(node) ==
    IF node = Leaf THEN 0
    ELSE LET l == black_height(node.left)
             r == black_height(node.right)
         IN  IF l = -1 \/ r = -1 \/ l # r THEN -1
             ELSE IF node.color = "black" THEN l + 1 ELSE l

\* "If a node is red then both its children are black", at every node.
RECURSIVE child_colors(_)
child_colors(node) ==
    /\ redp(node) => /\ node.left # Leaf => blackp(node.left)
                     /\ node.right # Leaf => blackp(node.right)
    /\ node.left # Leaf => child_colors(node.left)
    /\ node.right # Leaf => child_colors(node.right)

\* verify-invariants: no assertion of the verifier fails on root.
verify_invariants(root) ==
    root # Leaf =>
        /\ bst_invariant(root, -(2 ^ 30), 2 ^ 30 - 1)
        /\ root.color = "black"
        /\ child_colors(root)
        /\ black_height(root) # -1

RECURSIVE tree_count(_)
tree_count(tree) ==
    IF tree = Leaf THEN 0 ELSE 1 + tree_count(tree.left) + tree_count(tree.right)

\* inorder-traverse: the (key . value) pairs from left to right.
RECURSIVE inorder_traverse(_)
inorder_traverse(tree) ==
    IF tree = Leaf THEN <<>>
    ELSE inorder_traverse(tree.left) \o <<<<tree.key, tree.value>>>> \o inorder_traverse(tree.right)

RBKeys == 1..MaxKey

\* The tests insert (- item) first and a string made from the item later;
\* the model writes the string of item as item.
RBValues(k) == {-k, k}

Without(f, k) == [x \in DOMAIN f \ {k} |-> f[x]]

\* What the tree that was passed to insert is after the call: nodes are
\* immutable, insert writes to new nodes only.
argument_after_insert_InPlace(t, k, v) ==
    IF find_eq(k, t) # Leaf THEN insert(t, k, v) ELSE t

argument_after_insert(t, k, v) == t

\* (setq tree (redblack:insert tree item value)), for a new key or one present;
\* original-tree is the tree as it was passed.
rb_insert ==
    \E k \in RBKeys : \E v \in RBValues(k) :
        /\ rb_op[1] # "find<="
        /\ rb_tree' = insert(rb_tree, k, v)
        /\ rb_original' = argument_after_insert(rb_tree, k, v)
        /\ rb_inserted' = [x \in DOMAIN rb_inserted \cup {k} |-> IF x = k THEN v ELSE rb_inserted[x]]
        /\ rb_op' = <<"insert", k>>
        /\ rb_found' = Leaf
        /\ UNCHANGED <<searchVars, gcTestVars, dumpVars>>

\* (setq tree (redblack:delete key tree)), for a key the test holds as present.
rb_delete ==
    \E k \in DOMAIN rb_inserted :
        /\ rb_op[1] # "find<="
        /\ rb_tree' = delete(k, rb_tree)
        /\ rb_original' = rb_tree
        /\ rb_inserted' = Without(rb_inserted, k)
        /\ rb_op' = <<"delete", k>>
        /\ rb_found' = Leaf
        /\ UNCHANGED <<searchVars, gcTestVars, dumpVars>>

\* (find<= key tree) for a key from below the least key to above the greatest;
\* the tests look up in a tree once it is built.
rb_find_le ==
    \E k \in 0..(MaxKey + 1) :
        /\ rb_found' = find_le(k, rb_tree)
        /\ rb_op' = <<"find<=", k>>
        /\ UNCHANGED <<rb_tree, rb_original, rb_inserted, searchVars, gcTestVars, dumpVars>>

InitRB ==
    /\ DumpIdle
    /\ SearchIdle
    /\ RBIdle
    /\ GcTestsIdle

NextRB == rb_insert \/ rb_delete \/ rb_find_le

SpecRB == InitRB /\ [][NextRB]_vars


\* ------------------------------------------- the collector's unit tests
\* test_find_freeish and the reference allocation of test_adjust_obj_ptes, on
\* a mock page table of MAX_PAGES_FOR_TEST pages.  Sizes are in words of the
\* model; a page has GENCGC_PAGE_BYTES of them.
MAX_PAGES_FOR_TEST == 4
PAGE_TYPE_UNBOXED == 2
SINGLE_OBJECT_FLAG == 16
SCRATCH_GENERATION == 7
PAGE_TYPE_MIXED == 3

struct_page(type, words_used, scan_start_offset, gen) ==
    [type |-> type, words_used |-> words_used,
     scan_start_offset |-> scan_start_offset, gen |-> gen]

\* calloc(1+page_table_pages, sizeof(struct page))
FreshPageTable == [p \in 1..MAX_PAGES_FOR_TEST |-> struct_page(0, 0, 0, 0)]

\* gc_init_region: a region with no memory.  Addresses are offsets from
\* DYNAMIC_SPACE_START.
gc_init_region == [start_addr |-> 0, free_pointer |-> 0, end_addr |-> 0]

\* The first page a region for nbytes of page_type can start on: a free page,
\* or a page of that type and generation that is in no open region, holds no
\* large object and has nbytes available; 0 if there is none.
gc_find_freeish_pages_AcceptsFull(pt, nbytes, page_type, gen) ==
    LET fits == {p \in 1..Len(pt) :
                    \/ page_free_p(pt[p])
                    \/ /\ pt[p].type = page_type
                       /\ pt[p].gen = gen}
    IN  IF fits = {} THEN 0 ELSE CHOOSE p \in fits : \A q \in fits : p <= q

gc_find_freeish_pages(pt, nbytes, page_type, gen) ==
    LET fits == {p \in 1..Len(pt) :
                    \/ page_free_p(pt[p])
                    \/ /\ pt[p].type = page_type
                       /\ pt[p].gen = gen
                       /\ GENCGC_PAGE_BYTES - pt[p].words_used >= nbytes}
    IN  IF fits = {} THEN 0 ELSE CHOOSE p \in fits : \A q \in fits : p <= q

\* gc_alloc_new_region: the region is the unused rest of the page found; the
\* page gets the type, the generation and the open-region flag.
gc_alloc_new_region(pt, nbytes, page_type, gen) ==
    LET page == gc_find_freeish_pages(pt, nbytes, page_type, gen)
        first == (page - 1) * GENCGC_PAGE_BYTES + pt[page].words_used
    IN  [page_table |-> [pt EXCEPT ![page] =
                            struct_page(page_type + OPEN_REGION_PAGE_FLAG, @.words_used,
                                        @.scan_start_offset, gen)],
         region |-> [start_addr |-> first, free_pointer |-> first,
                     end_addr |-> page * GENCGC_PAGE_BYTES]]

\* ensure_region_closed: the region's page gets the words consumed and loses
\* the open-region flag (a page nothing was consumed from and that held
\* nothing is free again); the consumed bytes are added to the counts.
gc_close_region_Uncounted(pt, region, page_type, gen) ==
    LET page == region.start_addr \div GENCGC_PAGE_BYTES + 1
        used == pt[page].words_used + (region.free_pointer - region.start_addr)
    IN  [page_table |-> [pt EXCEPT ![page] =
                            IF used = 0 THEN struct_page(0, 0, 0, 0)
                            ELSE struct_page(page_type, used, @.scan_start_offset, gen)],
         consumed |-> 0]

gc_close_region(pt, region, page_type, gen) ==
    LET page == region.start_addr \div GENCGC_PAGE_BYTES + 1
        used == pt[page].words_used + (region.free_pointer - region.start_addr)
    IN  [page_table |-> [pt EXCEPT ![page] =
                            IF used = 0 THEN struct_page(0, 0, 0, 0)
                            ELSE struct_page(page_type, used, @.scan_start_offset, gen)],
         consumed |-> region.free_pointer - region.start_addr]

\* gc_alloc_large: the object gets pages of its own from the first free page
\* on; each holds what is left of the object, up to a full page, and points
\* back to the object's start.
gc_alloc_large(pt, nbytes, page_type, gen) ==
    LET npages == (nbytes + GENCGC_PAGE_BYTES - 1) \div GENCGC_PAGE_BYTES
        first == CHOOSE p \in 1..Len(pt) :
                    /\ \A q \in p..(p + npages - 1) : q <= Len(pt) /\ page_free_p(pt[q])
                    /\ \A r \in 1..(p - 1) :
                          \E q \in r..(r + npages - 1) : q > Len(pt) \/ ~ page_free_p(pt[q])
    IN  [page_table |->
            [p \in 1..Len(pt) |->
                IF p \in first..(first + npages - 1)
                THEN struct_page(SINGLE_OBJECT_FLAG + page_type,
                                 IF p < first + npages - 1 THEN GENCGC_PAGE_BYTES
                                 ELSE nbytes - (npages - 1) * GENCGC_PAGE_BYTES,
                                 (p - first) * GENCGC_PAGE_BYTES, gen)
                ELSE pt[p]],
         result |-> (first - 1) * GENCGC_PAGE_BYTES]

InitGcTests ==
    /\ DumpIdle
    /\ SearchIdle
    /\ RBIdle
    /\ ut_page_table = FreshPageTable
    /\ ut_region = gc_init_region
    /\ bytes_allocated = 0
    /\ generations = [gen \in 0..SCRATCH_GENERATION |-> 0]
    /\ gc_alloc_generation = 0
    /\ tot_bytes = 0
    /\ ut_call = <<>>
    /\ expected_result = <<>>
    /\ freed = 0
    /\ ut_pc = "closed"

\* test_find_freeish: gc_alloc_new_region(chunk, page_type, &r, 0) and
\* tot_bytes += chunk.  The test asks for boxed pages; code pages are asked
\* for as well.
find_freeish_alloc_new_region ==
    \E chunk \in 1..GENCGC_PAGE_BYTES : \E page_type \in {PAGE_TYPE_BOXED, PAGE_TYPE_CODE} :
        /\ ut_pc = "closed"
        /\ gc_find_freeish_pages(ut_page_table, chunk, page_type, gc_alloc_generation) # 0
        /\ LET opened == gc_alloc_new_region(ut_page_table, chunk, page_type, gc_alloc_generation)
           IN  /\ ut_page_table' = opened.page_table
               /\ ut_region' = opened.region
        /\ tot_bytes' = tot_bytes + chunk
        /\ ut_call' = <<chunk, page_type>>
        /\ ut_pc' = "open"
        /\ UNCHANGED <<bytes_allocated, generations, gc_alloc_generation,
                       expected_result, freed, searchVars, rbVars, dumpVars>>

\* r.free_pointer = (char*)r.free_pointer + chunk
find_freeish_advance ==
    /\ ut_pc = "open"
    /\ ut_region' = [ut_region EXCEPT !.free_pointer = @ + ut_call[1]]
    /\ ut_pc' = "advanced"
    /\ UNCHANGED <<ut_page_table, bytes_allocated, generations, gc_alloc_generation,
                   tot_bytes, ut_call, expected_result, freed, searchVars, rbVars, dumpVars>>

\* ensure_region_closed(&r, page_type)
find_freeish_ensure_region_closed ==
    /\ ut_pc = "advanced"
    /\ LET closed == gc_close_region(ut_page_table, ut_region, ut_call[2], gc_alloc_generation)
       IN  /\ ut_page_table' = closed.page_table
           /\ bytes_allocated' = bytes_allocated + closed.consumed
           /\ generations' = [generations EXCEPT ![gc_alloc_generation] = @ + closed.consumed]
    /\ ut_region' = gc_init_region
    /\ ut_pc' = "closed"
    /\ UNCHANGED <<gc_alloc_generation, tot_bytes, ut_call, expected_result, freed,
                   searchVars, rbVars, dumpVars>>

\* test_adjust_obj_ptes: on a fresh page table and zeroed counts, the
\* reference object: gc_alloc_large(request, PAGE_TYPE_UNBOXED, &test_region, 0)
\* in SCRATCH_GENERATION.
adjust_obj_ptes_alloc_large ==
    \E request \in 1..(MAX_PAGES_FOR_TEST * GENCGC_PAGE_BYTES) :
        /\ ut_pc = "closed"
        /\ tot_bytes = 0
        /\ gc_alloc_generation' = SCRATCH_GENERATION
        /\ LET large == gc_alloc_large(FreshPageTable, request, PAGE_TYPE_UNBOXED, SCRATCH_GENERATION)
           IN  /\ ut_page_table' = large.page_table
               /\ ut_call' = <<request, PAGE_TYPE_UNBOXED, large.result>>
               /\ expected_result' = large.page_table
        /\ bytes_allocated' = 0 + request
        /\ generations' = [gen \in 0..SCRATCH_GENERATION |-> IF gen = SCRATCH_GENERATION THEN request ELSE 0]
        /\ ut_pc' = "large"
        /\ UNCHANGED <<ut_region, tot_bytes, freed, searchVars, rbVars, dumpVars>>

\* adjust_obj_ptes: the object that starts on first_page is nwords long from
\* now on.  Its pages get the new generation and type and the words of the
\* object they still hold; the pages it no longer reaches are free again.
\* Returns the page table and the bytes freed.
adjust_obj_ptes_KeepsTrailing(pt, first_page, nwords, new_gen, new_allocated) ==
    LET old == {p \in first_page..Len(pt) :
                   /\ ~ page_free_p(pt[p])
                   /\ pt[p].scan_start_offset = (p - first_page) * GENCGC_PAGE_BYTES
                   /\ \A q \in first_page..p : ~ page_free_p(pt[q])}
        npages == (nwords + GENCGC_PAGE_BYTES - 1) \div GENCGC_PAGE_BYTES
        kept == first_page..(first_page + npages - 1)
    IN  [page_table |->
            [p \in 1..Len(pt) |->
                IF p \in kept
                THEN struct_page(new_allocated,
                                 IF p < first_page + npages - 1 THEN GENCGC_PAGE_BYTES
                                 ELSE nwords - (npages - 1) * GENCGC_PAGE_BYTES,
                                 (p - first_page) * GENCGC_PAGE_BYTES, new_gen)
                ELSE pt[p]],
         bytes_freed |-> Cardinality({<<p, i>> \in old \X (1..GENCGC_PAGE_BYTES) :
                                         i <= pt[p].words_used}) - nwords]

adjust_obj_ptes(pt, first_page, nwords, new_gen, new_allocated) ==
    LET old == {p \in first_page..Len(pt) :
                   /\ ~ page_free_p(pt[p])
                   /\ pt[p].scan_start_offset = (p - first_page) * GENCGC_PAGE_BYTES
                   /\ \A q \in first_page..p : ~ page_free_p(pt[q])}
        npages == (nwords + GENCGC_PAGE_BYTES - 1) \div GENCGC_PAGE_BYTES
        kept == first_page..(first_page + npages - 1)
    IN  [page_table |->
            [p \in 1..Len(pt) |->
                IF p \in kept
                THEN struct_page(new_allocated,
                                 IF p < first_page + npages - 1 THEN GENCGC_PAGE_BYTES
                                 ELSE nwords - (npages - 1) * GENCGC_PAGE_BYTES,
                                 (p - first_page) * GENCGC_PAGE_BYTES, new_gen)
                ELSE IF p \in old THEN struct_page(0, 0, 0, 0)
                ELSE pt[p]],
         bytes_freed |-> Cardinality({<<p, i>> \in old \X (1..GENCGC_PAGE_BYTES) :
                                         i <= pt[p].words_used}) - nwords]

\* shrink_obj_test: on a fresh page table, an object of initial_size, at least
\* the size of the reference object, of initial_type in generation 2.
shrink_obj_alloc_large ==
    \E initial_size \in 1..(MAX_PAGES_FOR_TEST * GENCGC_PAGE_BYTES) :
    \E initial_type \in {PAGE_TYPE_MIXED, PAGE_TYPE_UNBOXED} :
        /\ ut_pc = "large"
        /\ initial_size >= ut_call[1]
        /\ gc_alloc_generation' = 2
        /\ LET large == gc_alloc_large(FreshPageTable, initial_size, initial_type, 2)
           IN  /\ ut_page_table' = large.page_table
               /\ ut_call' = <<ut_call[1], initial_type, large.result, initial_size>>
        /\ bytes_allocated' = bytes_allocated + initial_size
        /\ generations' = [generations EXCEPT ![2] = @ + initial_size]
        /\ ut_pc' = "shrink"
        /\ UNCHANGED <<ut_region, tot_bytes, expected_result, freed, searchVars, rbVars, dumpVars>>

\* shrink_obj_test: adjust_obj_ptes(find_page_index(result), ending_size,
\* SCRATCH_GENERATION, SINGLE_OBJECT_FLAG | PAGE_TYPE_UNBOXED)
shrink_obj_adjust_obj_ptes ==
    /\ ut_pc = "shrink"
    /\ LET adjusted == adjust_obj_ptes(ut_page_table,
                                       ut_call[3] \div GENCGC_PAGE_BYTES + 1, ut_call[1],
                                       SCRATCH_GENERATION, SINGLE_OBJECT_FLAG + PAGE_TYPE_UNBOXED)
       IN  /\ ut_page_table' = adjusted.page_table
           /\ freed' = adjusted.bytes_freed
           /\ bytes_allocated' = bytes_allocated - adjusted.bytes_freed
           /\ generations' = [generations EXCEPT ![2] = @ - adjusted.bytes_freed]
    /\ ut_pc' = "shrunk"
    /\ UNCHANGED <<ut_region, gc_alloc_generation, tot_bytes, ut_call, expected_result,
                   searchVars, rbVars, dumpVars>>

NextGcTests ==
    \/ find_freeish_alloc_new_region
    \/ find_freeish_advance
    \/ find_freeish_ensure_region_closed
    \/ adjust_obj_ptes_alloc_large
    \/ shrink_obj_alloc_large
    \/ shrink_obj_adjust_obj_ptes

SpecGcTests == InitGcTests /\ [][NextGcTests]_vars


\* ------------------------------------------- the ldb command "dump -d"
\* A word is a pointer by its low bit (is_lisp_pointer); of the other words
\* those with the second bit set have the lowtag of an other-immediate, and
\* their low N_WIDETAG_BITS bits are the widetag; the rest are fixnums.
N_WIDETAG_BITS == 4

header_widetag(word) == word % (2 ^ N_WIDETAG_BITS)
other_immediate_lowtag_p(x) == x % 4 = 2

\* The widetags with the lowtag of an other-immediate: two of headered
\* objects, the one of characters, which are immediate, and one that is not
\* in use.
SIMPLE_VECTOR_WIDETAG == 2
CHARACTER_WIDETAG == 6
UnusedWidetag == 10
BIGNUM_WIDETAG == 14
HeaderedWidetags == {SIMPLE_VECTOR_WIDETAG, BIGNUM_WIDETAG}

\* is_header: not a fixnum, not a pointer, and not the widetag of an immediate.
is_header(word) ==
    /\ other_immediate_lowtag_p(header_widetag(word))
    /\ header_widetag(word) # CHARACTER_WIDETAG

\* sizetab[widetag](where), in words: the header word and the words it
\* counts for a headered object, one word for an immediate; for a widetag not
\* in use the entry is size_lose, which ends ldb ("no size function"): 0 here.
sizetab(widetag, word) ==
    IF widetag \in HeaderedWidetags THEN 1 + word \div (2 ^ N_WIDETAG_BITS)
    ELSE IF widetag = CHARACTER_WIDETAG THEN 1
    ELSE 0

CONS_SIZE == 2

\* valid_widetag_p: the lowtag of the widetag is all that is looked at.
valid_widetag_p(widetag) == other_immediate_lowtag_p(widetag)

\* The words the command is tried on: 0, a pointer, a fixnum, headers of
\* objects of one and two words, a character, and a word whose widetag is not
\* in use.
MaxDumpWords == 3
DumpWordSamples ==
    { 0, 3, 4, SIMPLE_VECTOR_WIDETAG + 2 ^ N_WIDETAG_BITS, BIGNUM_WIDETAG,
      CHARACTER_WIDETAG + 2 ^ N_WIDETAG_BITS, UnusedWidetag }

\* dump -d ADDRESS COUNT with a positive count, up to the loop: decoding is
\* refused for an address that is not aligned.
InitDecode ==
    /\ CrashDumpIdle
    /\ RerunIdle
    /\ SearchIdle
    /\ RBIdle
    /\ GcTestsIdle
    /\ \E aligned \in BOOLEAN :
          /\ dc_decode = aligned
          /\ dc_next_object = IF aligned THEN 1 ELSE 0
    /\ dc_memory \in [1..MaxDumpWords -> DumpWordSamples]
    /\ dc_addr = 1
    /\ dc_count = MaxDumpWords
    /\ dc_sized = <<>>
    /\ dc_pc = "loop"

\* One turn of the loop of dump_cmd over a word of managed memory.
dump_cmd ==
    /\ dc_pc = "loop"
    /\ dc_count > 0
    /\ LET word == dc_memory[dc_addr]
           sized == /\ word # 0
                    /\ ~ is_lisp_pointer(word)
                    /\ valid_widetag_p(header_widetag(word))
       IN  IF dc_decode /\ dc_addr = dc_next_object
           THEN IF sized
                THEN /\ dc_sized' = Append(dc_sized, header_widetag(word))
                     /\ dc_next_object' =
                           dc_next_object + sizetab(header_widetag(word), word)
                     /\ dc_pc' = IF sizetab(header_widetag(word), word) = 0 THEN "lost"
                                 ELSE IF dc_count = 1 THEN "done" ELSE "loop"
                     /\ UNCHANGED dc_decode
                ELSE /\ IF ~ is_header(word)
                        THEN /\ dc_next_object' = dc_next_object + CONS_SIZE
                             /\ UNCHANGED dc_decode
                        ELSE /\ dc_decode' = FALSE
                             /\ UNCHANGED dc_next_object
                     /\ dc_pc' = IF dc_count = 1 THEN "done" ELSE "loop"
                     /\ UNCHANGED dc_sized
           ELSE /\ dc_pc' = IF dc_count = 1 THEN "done" ELSE "loop"
                /\ UNCHANGED <<dc_decode, dc_next_object, dc_sized>>
    /\ dc_addr' = dc_addr + 1
    /\ dc_count' = dc_count - 1
    /\ UNCHANGED <<dc_memory, crashDumpVars, searchVars, rbVars, gcTestVars, rerunVars>>

SpecDecode == InitDecode /\ [][dump_cmd]_vars


\* ================================================================ properties
H == captured[1]

CapturePcs ==
    { "save_open", "w_preamble", "w_static", "w_dynamic", "w_page_table", "w_card_mark",
      "w_fixedobj", "w_fixedobj_pages", "w_varyobj", "w_touched_bits", "w_varyobj_pages",
      "w_thread_preamble", "w_context", "w_control_stack", "w_binding_stack", "w_tls",
      "w_trailer" }

\* The restored thread that stands for the j-th captured thread: threads are
\* pushed on the front, so the list comes out in reverse image order.
RestoredFor(j) == all_threads[Len(H.threads) + 1 - j]

\* C1: when load_gc_crashdump has returned on the image of a capture, the
\* static cells up to the free pointer, the cells of all captured dynamic
\* pages, the captured page-table entries, all card marks, and the cells, page
\* tables and touched bits of the two immobile spaces equal those of the
\* captured heap.
C1_RoundTripHeap ==
    ld_pc = "returned" =>
        /\ ld_static_space = H.static_space
        /\ ld_dynamic_space = H.dynamic_space
        /\ ld_page_table = H.page_table
        /\ ld_card_mark = H.gc_card_mark
        /\ ld_fixedobj_space = H.fixedobj_space
        /\ ld_fixedobj_pages = H.fixedobj_pages
        /\ ld_varyobj_space = H.varyobj_space
        /\ ld_touched_bits = H.varyobj_page_touched_bits
        /\ ld_varyobj_pages = H.varyobj_pages

C1_Witness ==
    /\ ld_pc = "returned"
    /\ Len(H.dynamic_space) = 2 * GENCGC_PAGE_BYTES
    /\ \E k \in 1..Len(H.dynamic_space) : H.dynamic_space[k] = 1
    /\ Len(ld_page_table) = 2

\* C2 (as claimed): when load_gc_crashdump has returned there are as many
\* thread records as were captured, and each has the captured control-stack,
\* binding-stack and thread-local cells, the header prefix of the
\* thread-local block excepted.
C2_ThreadsIdentical ==
    ld_pc = "returned" =>
        /\ Len(all_threads) = Len(H.threads)
        /\ \A j \in 1..Len(H.threads) :
              /\ RestoredFor(j).cs = control_stack_from(H.threads[j], crash_sp(H.threads[j]))
              /\ RestoredFor(j).bs = H.threads[j].bs
              /\ \A k \in (skip + 1)..nbytes_tls :
                    RestoredFor(j).tls[k] = H.threads[j].tls[k]

NothingLoaded ==
    /\ ld_static_space = <<>>
    /\ ld_static_start = 0
    /\ ld_dynamic_space = <<>>
    /\ ld_page_table = <<>>
    /\ ld_card_mark = <<>>
    /\ ld_fixedobj_space = <<>>
    /\ ld_fixedobj_pages = <<>>
    /\ ld_varyobj_space = <<>>
    /\ ld_touched_bits = <<>>
    /\ ld_varyobj_pages = <<>>
    /\ ld_threads = <<>>
    /\ all_threads = <<>>

\* C3: on an image whose first cell is not CRASH_PREAMBLE_SIGNATURE the loader
\* never gets past the preamble: it is lost, and no region cell, page-table
\* entry, card mark or thread record has been loaded.
C3_SignatureRejected ==
    (ld_pc # "idle" /\ Len(image) > 0 /\ image[1] # CRASH_PREAMBLE_SIGNATURE) =>
        /\ ld_pc \in {"l_preamble", "lost"}
        /\ NothingLoaded

C3_Witness ==
    /\ tamper = "signature"
    /\ ld_pc = "lost"
    /\ ld_pos = PreambleCells
    /\ Len(image) > PreambleCells + Len(TrailingSignature)

\* A capture all of whose writes were complete.
ValidImage == pc = "done" /\ ~ short_write

\* C4: on a valid image cut to fewer cells than it has, the loader never
\* returns and never publishes a thread list; as long as it is not lost it
\* has a next step.
C4_TruncationDetected ==
    (tamper = "truncated" /\ ValidImage) =>
        /\ ld_pc # "returned"
        /\ all_threads = <<>>
        /\ (ld_pc # "lost" => ENABLED load_gc_crashdump)

C4_Witness ==
    /\ tamper = "truncated"
    /\ ValidImage
    /\ ld_pc = "lost"
    /\ Len(ld_preamble) = PreambleCells
    /\ ld_i = P_nthreads(ld_preamble)
    /\ ld_pos = Len(image)
    /\ Len(image) = Len(file) - 1

\* C5: the step taken after the last thread record returns exactly when the
\* next 8 cells are "SB.Crash" and the file ends after them; in every other
\* case it loses.
C5_TrailerChecked ==
    [][ ld_pc = "l_trailer" =>
          /\ ld_pc' \in {"returned", "lost"}
          /\ ld_pc' = "returned" <=>
                /\ Len(image) = ld_pos + Len(TrailingSignature)
                /\ SubSeq(image, ld_pos + 1, Len(image)) = TrailingSignature ]_vars

C5_Witness ==
    /\ tamper = "extended"
    /\ ld_pc = "lost"
    /\ ld_i = P_nthreads(ld_preamble)
    /\ ld_pos + 1 = Len(image)
    /\ SubSeq(image, ld_pos - Len(TrailingSignature) + 1, ld_pos) = TrailingSignature

\* C6 (as claimed): once a write has transferred less than was asked, the
\* capturing process is lost.
C6_ShortWriteFatal == short_write => pc = "lost"

OtherThreads == 1..(Len(threads) - 1)

NoOpenRegion ==
    /\ \A t \in 1..Len(threads) : threads[t].region_page = 0
    /\ collector_region = 0
    /\ \A p \in 1..Len(page_table) : pte_type(page_table[p]) < OPEN_REGION_PAGE_FLAG

\* C7: while save_gc_crashdump runs, every other thread is stopped and no
\* allocation region, of a thread or of the collector, is open; another
\* thread runs after save_cmd has begun only when the trailing signature is
\* the last thing written.
C7_WorldStoppedDuringCapture ==
    /\ pc \in CapturePcs =>
          /\ \A t \in OtherThreads : threads[t].state = "stopped"
          /\ NoOpenRegion
    /\ (pc # "run" /\ \E t \in OtherThreads : threads[t].state = "running") =>
          /\ pc = "done"
          /\ wpos >= Len(TrailingSignature)
          /\ SubSeq(file, wpos - Len(TrailingSignature) + 1, wpos) = TrailingSignature

C7_Witness ==
    /\ pc = "w_page_table"
    /\ Len(threads) = 2
    /\ page_table # <<>>
    /\ \E p \in 1..Len(page_table) : pte_words_used(page_table[p]) = 1

\* C8: all_threads of ldb is empty until load_gc_crashdump returns, and it
\* returns only with the whole file consumed, the trailing signature being
\* its last 8 cells, and all_threads the list that was built.
C8_AtomicLoad ==
    /\ ld_pc # "returned" => all_threads = <<>>
    /\ ld_pc = "returned" =>
          /\ ld_pos = Len(image)
          /\ Len(image) >= Len(TrailingSignature)
          /\ SubSeq(image, Len(image) - Len(TrailingSignature) + 1, Len(image))
                = TrailingSignature
          /\ all_threads = ld_threads
          /\ Len(all_threads) = P_nthreads(ld_preamble)

C8_Witness ==
    /\ ld_pc = "lost"
    /\ Len(ld_threads) = 2
    /\ ld_threads[2].cs # <<>>
    /\ all_threads = <<>>

PostMapPcs ==
    { "l_dynamic", "l_page_table", "l_card_mark", "l_map_immobile", "l_fixedobj",
      "l_fixedobj_pages", "l_varyobj", "l_touched_bits", "l_varyobj_pages",
      "l_thread_preamble", "l_context", "l_control_stack", "l_binding_stack", "l_tls",
      "l_scan", "l_trailer", "returned" }

\* C9: the loader goes on after mapping dynamic space only if os_validate
\* returned the start recorded in the preamble, and dynamic-space cells are
\* read only then.
C9_DynamicPlacement ==
    /\ ld_pc \in PostMapPcs => ld_dynspace = P_dynspace_start(ld_preamble)
    /\ ld_dynamic_space # <<>> => ld_dynspace = P_dynspace_start(ld_preamble)

C9_Witness ==
    /\ ld_pc = "lost"
    /\ ld_dynspace = ElsewhereAddress
    /\ P_dynspace_npages(ld_preamble) > 0
    /\ ld_dynamic_space = <<>>

\* C10 (as claimed): when an immobile space was not mapped at its recorded
\* start, the loader is lost and has replayed no payload over what is there.
C10_ImmobilePlacement ==
    (ld_fixedobj_map = "foreign" \/ ld_varyobj_map = "foreign") =>
        /\ ld_pc = "lost"
        /\ ~ ld_foreign_clobbered

\* C11 (as claimed): once the preamble is read, a card size or a card-table
\* index width in it that is not the running configuration's means the loader
\* is lost right there, with nothing loaded.
C11_CardParametersChecked ==
    (/\ Len(ld_preamble) = PreambleCells
     /\ P_signature(ld_preamble) = CRASH_PREAMBLE_SIGNATURE
     /\ \/ P_card_size(ld_preamble) # GENCGC_CARD_BYTES
        \/ P_card_table_nbits(ld_preamble) # ReaderCardTableNBits) =>
        /\ ld_pc = "lost"
        /\ ld_pos = PreambleCells
        /\ NothingLoaded

\* C11 (amended): a card size that is not GENCGC_CARD_BYTES means the loader
\* is lost at the preamble with nothing loaded; the card-table index width is
\* not compared: past the preamble the loader's width is the preamble's and
\* its card table has 1 << width marks.
C11_CardSizeChecked ==
    /\ (/\ Len(ld_preamble) = PreambleCells
        /\ P_card_size(ld_preamble) # GENCGC_CARD_BYTES) =>
           /\ ld_pc = "lost"
           /\ ld_pos = PreambleCells
           /\ NothingLoaded
    /\ ld_pc \notin {"idle", "l_preamble", "lost"} =>
           /\ P_card_size(ld_preamble) = GENCGC_CARD_BYTES
           /\ ld_card_table_nbits = P_card_table_nbits(ld_preamble)
           /\ Len(ld_card_mark) = 2 ^ ld_card_table_nbits

C11_Witness ==
    /\ tamper = "card_size"
    /\ ld_pc = "lost"
    /\ ld_pos = PreambleCells
    /\ P_signature(ld_preamble) = CRASH_PREAMBLE_SIGNATURE
    /\ P_card_size(ld_preamble) = GENCGC_CARD_BYTES * 2

\* Threads of a list that have a register snapshot.
WithContext(ths) == {t \in 1..Len(ths) : ths[t].context # <<>>}

\* C12 (as claimed): a capture of three threads of which exactly one has an
\* interrupt context comes to its end, and the restore of its image returns
\* three thread records of which exactly one has a register snapshot.
C12_OneOfThreeHasContext ==
    /\ (pc \in {"done", "exited"} /\ Len(threads) = 3 /\ Cardinality(WithContext(threads)) = 1) =>
          pc = "done"
    /\ (/\ ld_pc = "returned"
        /\ Len(H.threads) = 3
        /\ Cardinality(WithContext(H.threads)) = 1) =>
          /\ Len(all_threads) = 3
          /\ Cardinality(WithContext(all_threads)) = 1

\* C13: the step that scans a restored stack never loses: it goes on to the
\* next thread, or to the trailer after the last one; its two counts together
\* are at most the number of words of the stack; it changes nothing that was
\* restored and reads nothing from the file.
C13_ScanNeverAborts ==
    [][ ld_pc = "l_scan" =>
          /\ ld_pc' = (IF ld_i + 1 < P_nthreads(ld_preamble)
                       THEN "l_thread_preamble" ELSE "l_trailer")
          /\ Len(ld_scan') = Len(ld_scan) + 1
          /\ ld_scan'[1][1] + ld_scan'[1][2] <= Len(ld_threads[1].cs)
          /\ ld_scan'[1][2] =
                Cardinality({k \in 1..Len(ld_threads[1].cs) :
                                /\ scan_candidate(ld_threads[1].cs[k])
                                /\ ~ scan_found(ld_threads[1].cs[k])})
          /\ UNCHANGED <<ld_threads, ldHeapVars, ldImmVars, ld_pos>> ]_vars

C13_Witness ==
    /\ ld_pc = "returned"
    /\ Len(ld_scan) = 3
    /\ \E j \in 1..Len(ld_scan) : ld_scan[j][1] > 0 /\ ld_scan[j][2] > 0

\* C14: for a hand-built page table, the lookup of an address returns the
\* start of the object that holds the address, for every address inside an
\* object (also on a later page of an object that spans pages), and nothing
\* for every address in free space, past words_used or outside the space.
C14_ContainingObject ==
    sr_addr # 0 =>
        LET at == ObjectHolding(heap_objects, sr_addr - DynamicSpaceStartAtSave)
        IN  sr_out = (IF at = -1 THEN NotFound ELSE DynamicSpaceStartAtSave + at)

C14_Witness ==
    /\ sr_addr # 0
    /\ sr_out = DynamicSpaceStartAtSave
    /\ Len(heap_objects) = 2
    /\ sr_addr >= DynamicSpaceStartAtSave + GENCGC_PAGE_BYTES
    /\ sr_page_table[find_page_index(DynamicSpaceStartAtSave, sr_addr)].scan_start_offset > 0

\* C15: after any sequence of inserts and deletes from the empty tree no
\* assertion of the verifier fails: keys are ordered as in a binary search
\* tree, the root is black, no red node has a red child, and the black height
\* of the two subtrees of every node is the same.
C15_TreeInvariants ==
    /\ verify_invariants(rb_tree)
    /\ rb_tree # Leaf =>
          /\ bst_invariant(rb_tree, 0, MaxKey + 1)
          /\ rb_tree.color = "black"
          /\ child_colors(rb_tree)
          /\ black_height(rb_tree) >= 1

C15_Witness ==
    /\ rb_op[1] = "delete"
    /\ tree_count(rb_tree) = MaxKey - 1
    /\ tree_count(rb_original) = MaxKey
    /\ rb_tree.key # rb_original.key

\* C16: find= returns, for every key the test holds as present, a node with
\* the value of the key's latest insert, and nil for every other key; the tree
\* has one node per present key, and a delete of a present key leaves one node
\* less than the tree it was given.
C16_FindEq ==
    /\ \A k \in RBKeys :
          IF k \in DOMAIN rb_inserted
          THEN find_eq(k, rb_tree) # Leaf /\ find_eq(k, rb_tree).value = rb_inserted[k]
          ELSE find_eq(k, rb_tree) = Leaf
    /\ tree_count(rb_tree) = Cardinality(DOMAIN rb_inserted)
    /\ {inorder_traverse(rb_tree)[i] : i \in 1..Len(inorder_traverse(rb_tree))}
          = {<<k, rb_inserted[k]>> : k \in DOMAIN rb_inserted}
    /\ rb_op[1] = "delete" =>
          /\ tree_count(rb_tree) = tree_count(rb_original) - 1
          /\ find_eq(rb_op[2], rb_original) # Leaf
          /\ find_eq(rb_op[2], rb_tree) = Leaf

C16_Witness ==
    /\ rb_op[1] = "delete"
    /\ tree_count(rb_tree) >= 3
    /\ \E k \in DOMAIN rb_inserted : rb_inserted[k] = k /\ find_eq(k, rb_tree).value = k

C18_FindLessEql ==
    /\ \A k \in 0..(MaxKey + 1) :
          LET le == {x \in DOMAIN rb_inserted : x <= k}
              found == find_le(k, rb_tree)
          IN  IF le = {} THEN found = Leaf
              ELSE /\ found # Leaf
                   /\ found.key \in le
                   /\ \A x \in le : x <= found.key
    /\ rb_op[1] = "find<=" =>
          (rb_found = Leaf <=> \A x \in DOMAIN rb_inserted : rb_op[2] < x)

C18_Witness ==
    /\ rb_op = <<"find<=", MaxKey - 1>>
    /\ DOMAIN rb_inserted = {1, 2, MaxKey}
    /\ rb_found # Leaf
    /\ rb_found.key = 2

\* The pages of the mock page table that carry the open-region flag.
OpenRegionPages ==
    {j \in 1..Len(ut_page_table) : (ut_page_table[j].type \div OPEN_REGION_PAGE_FLAG) % 2 = 1}

\* C19: from gc_alloc_new_region to ensure_region_closed exactly one page
\* carries the open-region flag, in every cycle; it is the page the region
\* starts on, it has room left, and the region holds the request.  No page
\* carries the flag once the region is closed.
C19_OneOpenRegionPage ==
    /\ ut_pc \in {"open", "advanced"} =>
          /\ Cardinality(OpenRegionPages) = 1
          /\ \A page \in OpenRegionPages :
                /\ ut_page_table[page].words_used < GENCGC_PAGE_BYTES
                /\ ut_region.start_addr =
                      (page - 1) * GENCGC_PAGE_BYTES + ut_page_table[page].words_used
                /\ ut_region.end_addr = page * GENCGC_PAGE_BYTES
                /\ ut_region.end_addr - ut_region.start_addr >= ut_call[1]
    /\ ut_pc = "closed" => OpenRegionPages = {}

C19_Witness ==
    /\ ut_pc = "advanced"
    /\ tot_bytes >= 2 * GENCGC_PAGE_BYTES
    /\ ut_region.start_addr % GENCGC_PAGE_BYTES # 0
    /\ \E p \in 1..Len(ut_page_table) :
          /\ ut_page_table[p].words_used = GENCGC_PAGE_BYTES
          /\ ut_page_table[p].type = ut_call[2]
          /\ p * GENCGC_PAGE_BYTES <= ut_region.start_addr

\* C20: after each ensure_region_closed bytes_allocated, the count of the
\* allocating generation and the words the page table records as used all
\* equal what was consumed from the regions opened and closed so far; after
\* one gc_alloc_large of request bytes on a fresh page table, the object is at
\* the start of the space and both counts equal request.
C20_BytesAllocated ==
    /\ ut_pc = "closed" =>
          /\ bytes_allocated = tot_bytes
          /\ generations[gc_alloc_generation] = tot_bytes
          /\ Cardinality({<<p, i>> \in (1..Len(ut_page_table)) \X (1..GENCGC_PAGE_BYTES) :
                              i <= ut_page_table[p].words_used}) = tot_bytes
    /\ ut_pc = "large" =>
          /\ ut_call[3] = 0
          /\ bytes_allocated = ut_call[1]
          /\ generations[gc_alloc_generation] = ut_call[1]

C20_Witness ==
    /\ ut_pc = "closed"
    /\ tot_bytes > 2 * GENCGC_PAGE_BYTES
    /\ bytes_allocated = tot_bytes
    /\ \E p \in 1..Len(ut_page_table) : ut_page_table[p].type = PAGE_TYPE_CODE

\* C21: an object allocated at an initial size and shrunk by adjust_obj_ptes to
\* the ending size leaves every page with the words_used, scan_start_offset
\* and type, and every page in use with the generation, that the object
\* allocated at the ending size left; the pages behind it are free; the bytes
\* freed are the initial size less the ending size.
C21_ShrinkEqualsDirect ==
    ut_pc = "shrunk" =>
        /\ freed = ut_call[4] - ut_call[1]
        /\ \A page \in 1..MAX_PAGES_FOR_TEST :
              /\ ut_page_table[page].words_used = expected_result[page].words_used
              /\ ut_page_table[page].scan_start_offset = expected_result[page].scan_start_offset
              /\ ut_page_table[page].type = expected_result[page].type
              /\ ~ page_free_p(ut_page_table[page]) =>
                    ut_page_table[page].gen = expected_result[page].gen
        /\ \A page \in 1..MAX_PAGES_FOR_TEST :
              (page - 1) * GENCGC_PAGE_BYTES >= ut_call[1] => page_free_p(ut_page_table[page])

C21_Witness ==
    /\ ut_pc = "shrunk"
    /\ ut_call[2] = PAGE_TYPE_MIXED
    /\ ut_call[4] > ut_call[1] + GENCGC_PAGE_BYTES
    /\ ut_call[1] > GENCGC_PAGE_BYTES
    /\ ut_call[1] % GENCGC_PAGE_BYTES # 0
    /\ freed > GENCGC_PAGE_BYTES

\* The offset at which the writer began each section of the heap, from what
\* it captured, by the reader's position that reads the section.
HeapSectionOffset ==
    LET a == PreambleCells
        b == a + Len(H.static_space)
        c == b + Len(H.dynamic_space)
        d == c + Len(H.page_table)
        e == d + Len(H.gc_card_mark)
        f == e + Len(H.fixedobj_space)
        g == f + Len(H.fixedobj_pages)
        h == g + Len(H.varyobj_space)
        i == h + Len(H.varyobj_page_touched_bits)
    IN  [ l_static |-> a, l_map_dynamic |-> b, l_dynamic |-> b, l_page_table |-> c,
          l_card_mark |-> d, l_map_immobile |-> e, l_fixedobj |-> e,
          l_fixedobj_pages |-> f, l_varyobj |-> g, l_touched_bits |-> h,
          l_varyobj_pages |-> i, threads |-> i + Len(H.varyobj_pages) ]

\* The cells of the first n thread records as the writer wrote them.
RECURSIVE ThreadRecordCells(_)
ThreadRecordCells(n) ==
    IF n = 0 THEN 0
    ELSE ThreadRecordCells(n - 1) + ThreadPreambleCells
         + (IF ici_of(H.threads[n]) # 0 THEN SizeofOsContext ELSE 0)
         + nbytes_control_stack(H.threads[n]) + nbytes_binding_stack(H.threads[n])
         + nbytes_tls

\* C22 (as claimed): on every file save_cmd has produced, the reader begins
\* each section of the heap and each thread record at the offset where the
\* writer began it, reads as many thread records as were written, stands at
\* the trailing signature where the writer put it, and is not lost while it
\* reads.
C22_ReaderFollowsWriter ==
    (tamper = "none" /\ ld_pc # "idle") =>
        /\ ld_pc \in DOMAIN HeapSectionOffset => ld_pos = HeapSectionOffset[ld_pc]
        /\ ld_pc \in {"l_thread_preamble", "l_trailer"} =>
              /\ ld_i <= Len(H.threads)
              /\ ld_pos = HeapSectionOffset.threads + ThreadRecordCells(ld_i)
        /\ ld_pc = "l_trailer" =>
              /\ ld_i = Len(H.threads)
              /\ ld_pos + Len(TrailingSignature) = Len(image)
        /\ ld_pc = "lost" =>
              ld_pos \in {HeapSectionOffset.l_map_dynamic, HeapSectionOffset.l_map_immobile}

\* C23: the card table is captured and restored in full: the writer put
\* 1 + gc_card_table_mask card marks after the page table and the step of the
\* reader that reads the card table consumes exactly those cells, whatever
\* the number of dynamic-space pages in use, and leaves the reader's card
\* table equal to the writer's.
C23_CardTableInFull ==
    [][ld_pc = "l_card_mark" =>
          /\ ld_pos = HeapSectionOffset.l_card_mark
          /\ ld_pos' - ld_pos = 1 + gc_card_table_mask
          /\ Len(H.gc_card_mark) = 1 + gc_card_table_mask
          /\ SubSeq(image, ld_pos + 1, ld_pos') = H.gc_card_mark
          /\ ld_card_mark' = H.gc_card_mark
          /\ ld_pc' = "l_map_immobile"]_vars

\* A card table with a mark has been restored from a file of a heap with
\* fewer pages in use than the card table has marks.
C23_Witness ==
    /\ ld_pc = "l_map_immobile"
    /\ P_dynspace_npages(ld_preamble) < 1 + gc_card_table_mask
    /\ ld_card_mark = H.gc_card_mark
    /\ \E i \in DOMAIN ld_card_mark : ld_card_mark[i] # 0

\* C24 (as claimed): the words of a restored control stack that the scan
\* counted, as valid or as dangling, are the words inside the dynamic-space
\* envelope whose tag bits are those of a pointer; no other word is counted.
C24_TaggedWordsOnly ==
    \A k \in 1..Len(ld_scan) :
        LET stack == ld_threads[Len(ld_threads) - Len(ld_scan) + k].cs
        IN  ld_scan[k][1] + ld_scan[k][2] =
                Cardinality({w \in 1..Len(stack) :
                    /\ DynamicSpaceStartAtSave <= stack[w]
                    /\ stack[w] < DynamicSpaceStartAtSave + dynamic_space_size
                    /\ stack[w] % 2 = 1})

\* C24 (amended): the words counted are the words inside the dynamic-space
\* envelope that have the tag bits of a pointer or point to a page whose
\* type in the captured page table is code; no other word is counted.
C24_TaggedOrIntoCode ==
    \A k \in 1..Len(ld_scan) :
        LET stack == ld_threads[Len(ld_threads) - Len(ld_scan) + k].cs
            page(word) == (word - DynamicSpaceStartAtSave) \div GENCGC_PAGE_BYTES + 1
            code(word) == /\ page(word) \in 1..Len(H.page_table)
                          /\ pte_type(H.page_table[page(word)]) % OPEN_REGION_PAGE_FLAG
                                = PAGE_TYPE_CODE
        IN  ld_scan[k][1] + ld_scan[k][2] =
                Cardinality({w \in 1..Len(stack) :
                    /\ DynamicSpaceStartAtSave <= stack[w]
                    /\ stack[w] < DynamicSpaceStartAtSave + dynamic_space_size
                    /\ (stack[w] % 2 = 1 \/ code(stack[w]))})

\* A stack has been scanned that holds a word without pointer tag bits
\* pointing to a page of code, and the word was counted.
C24_Witness ==
    \E k \in 1..Len(ld_scan) :
        LET stack == ld_threads[Len(ld_threads) - Len(ld_scan) + k].cs
        IN  /\ ld_scan[k][1] + ld_scan[k][2] = Len(stack)
            /\ \E w \in 1..Len(stack) :
                  /\ stack[w] % 2 = 0
                  /\ scan_candidate(stack[w])

\* C25 (as claimed): a thread record holds the bytes of a register snapshot
\* if and only if the has_context flag of its preamble is not zero: the
\* writer sets the flag exactly for a thread with an interrupt context and
\* then puts sizeof_context bytes of the snapshot after the preamble, and
\* puts none otherwise; the reader takes sizeof_context bytes after a
\* preamble whose flag is not zero and none otherwise.
C25_SnapshotIffFlag ==
    [][ /\ (pc = "w_thread_preamble" /\ pc' \in {"w_context", "w_control_stack"}) =>
              LET tp == SubSeq(file', wpos + 1, wpos')
              IN  /\ TP_has_context(tp) # 0 <=> ici_of(threads[th_i]) # 0
                  /\ TP_has_context(tp) # 0 <=> pc' = "w_context"
        /\ pc = "w_context" =>
              /\ wpos' - wpos = SizeofOsContext
              /\ SubSeq(file', wpos + 1, wpos') = threads[th_i].context
        /\ (ld_pc = "l_context" /\ ld_pc' # "lost") =>
              ld_pos' - ld_pos = (IF TP_has_context(ld_thread_preamble) # 0
                                  THEN P_sizeof_context(ld_preamble) ELSE 0) ]_vars

\* C26 (as claimed): the bytes of static space are replayed at the static
\* base recorded in the preamble: whenever the reader has read static space,
\* the address it read the bytes to is preamble.static_start, so an image
\* whose recorded base is not the reader's own is not loaded at another
\* address.
C26_StaticAtRecordedBase ==
    ld_static_start # 0 => ld_static_start = P_static_start(ld_preamble)

\* C27: bytes_allocated of each generation is recomputed in the step that
\* reads the page table, once all its entries are read: from then on, where
\* the restored heap is looked at (the generation statistics printed after
\* the card table, the search of the stack scan), it is the sum over the
\* restored page table, which is the writer's; before, and when the page table
\* could not be read, it is what it was when ldb started.
C27_BytesAllocatedRecomputed ==
    /\ ld_pc \in {"idle", "l_preamble", "l_static", "l_map_dynamic", "l_dynamic",
                  "l_page_table"} =>
          \A g \in Generations : ld_generations[g] = 0
    /\ ld_pc \notin {"idle", "l_preamble", "l_static", "l_map_dynamic", "l_dynamic",
                     "l_page_table", "lost"} =>
          /\ Len(ld_page_table) = P_dynspace_npages(ld_preamble)
          /\ \A g \in Generations :
                ld_generations[g] = recompute_gen_bytes_allocated(ld_page_table, g)
          /\ tamper = "none" =>
                ld_generations[0] = recompute_gen_bytes_allocated(H.page_table, 0)

\* The generation statistics are about to be printed for a restored heap
\* of two pages with cells in use.
C27_Witness ==
    /\ ld_pc = "l_card_mark"
    /\ Len(ld_page_table) = 2
    /\ ld_generations[0] > 0
    /\ ld_generations[0] = pte_words_used(ld_page_table[1]) + pte_words_used(ld_page_table[2])

\* C28: the step that reads the thread-local block of a thread record, when
\* it does not lose, consumes exactly tls_size cells of the file; the first
\* sizeof(struct thread) minus one word of them go nowhere: the header cells of
\* the thread structure just allocated stay as they were; every cell from
\* the last header word on is the cell of the file, the slot written by
\* write_TLS afterwards apart.
C28_TlsBlockRead ==
    [][ (ld_pc = "l_tls" /\ ld_pc' # "lost") =>
          /\ ld_pos' - ld_pos = P_tls_size(ld_preamble)
          /\ Len(ld_threads'[1].tls) = Len(ld_threads[1].tls)
          /\ \A k \in 1..(ThreadStructWords - 1) :
                ld_threads'[1].tls[k] = ld_threads[1].tls[k]
          /\ \A k \in ThreadStructWords..P_tls_size(ld_preamble) :
                k # FREE_INTERRUPT_CONTEXT_INDEX =>
                    ld_threads'[1].tls[k] = image[ld_pos + k] ]_vars

\* A thread-local block has been read whose header cells in the file are not
\* those of the fresh thread structure, which kept its own, and whose last
\* header word came from the file.
C28_Witness ==
    /\ ld_pc = "l_scan"
    /\ LET at == ld_pos - P_tls_size(ld_preamble)
       IN  /\ ld_threads[1].tls[1] # image[at + 1]
           /\ ld_threads[1].tls[1] = ld_threads[1].addr
           /\ ld_threads[1].tls[ThreadStructWords] = image[at + ThreadStructWords]
           /\ image[at + ThreadStructWords] # 0

\* C29: once the control stack of a thread record with has_context has been
\* read, the context of the thread is the snapshot of the file with only its
\* stack-pointer register changed, to control_stack_end of the new thread
\* less control_stack_nbytes, and the cells of the control stack are those of
\* the file, as many as lie between that register and control_stack_end.
C29_StackPointerRebased ==
    (ld_pc = "l_binding_stack" /\ TP_has_context(ld_thread_preamble) # 0) =>
        LET th == ld_threads[1]
            n == TP_control_stack_nbytes(ld_thread_preamble)
            at == ld_pos - n - P_sizeof_context(ld_preamble)
        IN  /\ Len(th.context) = P_sizeof_context(ld_preamble)
            /\ th.context[1] = th.control_stack_end - n
            /\ \A k \in 2..P_sizeof_context(ld_preamble) : th.context[k] = image[at + k]
            /\ th.cs = SubSeq(image, ld_pos - n + 1, ld_pos)
            /\ Len(th.cs) = th.control_stack_end - th.context[1]

\* A record with a snapshot and a control stack that is not empty has been
\* read, and the stack pointer of the snapshot in the file was another.
C29_Witness ==
    /\ ld_pc = "l_binding_stack"
    /\ TP_has_context(ld_thread_preamble) # 0
    /\ TP_control_stack_nbytes(ld_thread_preamble) > 0
    /\ ld_threads[1].context[1] #
          image[ld_pos - TP_control_stack_nbytes(ld_thread_preamble)
                  - P_sizeof_context(ld_preamble) + 1]

\* C30: when load_gc_crashdump has returned on a file with N thread records,
\* all_threads is a doubly linked list of exactly N thread structures, the
\* ones allocated in the loop, each at its own address: the head has no prev,
\* the last has no next, next of each is the one after it and prev of that one
\* is the one before; the structure of the record read last is the head, the
\* one of the first record is last.
C30_ThreadListWellFormed ==
    ld_pc = "returned" =>
        LET n == Len(all_threads)
        IN  /\ n = P_nthreads(ld_preamble)
            /\ tamper = "none" => n = Len(H.threads)
            /\ n > 0 => all_threads[1].prev = 0 /\ all_threads[n].next = 0
            /\ \A k \in 1..(n - 1) :
                  /\ all_threads[k].next = all_threads[k + 1].addr
                  /\ all_threads[k + 1].prev = all_threads[k].addr
            /\ \A k \in 1..n :
                  /\ all_threads[k].addr = alloc_thread_struct(n - k).addr
                  /\ all_threads[k].addr # 0
                  /\ tamper = "none" =>
                        all_threads[k].tls[ThreadStructWords]
                            = H.threads[n + 1 - k].tls[ThreadStructWords]
            /\ \A j, k \in 1..n : all_threads[j].addr = all_threads[k].addr => j = k

\* A file with two thread records has been loaded.
C30_Witness ==
    /\ ld_pc = "returned"
    /\ Len(all_threads) = 2
    /\ all_threads[1].next = all_threads[2].addr
    /\ all_threads[1].tls[ThreadStructWords] # all_threads[2].tls[ThreadStructWords]

\* C31 (as claimed): an image whose preamble declares more dynamic-space
\* pages than the page table and the mapped dynamic space of ldb hold is
\* fatal before anything of it is replayed: the loader does not get past the
\* read of dynamic space and stores no cell past the end of the mapping or of
\* the page table.
C31_PagesWithinCapacity ==
    (Len(ld_preamble) = PreambleCells /\ P_dynspace_npages(ld_preamble) > page_table_pages) =>
        /\ ~ ld_overrun
        /\ ld_pc \in {"l_static", "l_map_dynamic", "l_dynamic", "lost"}

\* C32 (as claimed): in decode mode the size table is invoked only for the
\* widetag of a headered object, and the command never ends in the failure of
\* a widetag without size function.
C32_SizeOnlyForHeadered ==
    /\ \A k \in DOMAIN dc_sized : dc_sized[k] \in HeaderedWidetags
    /\ dc_pc # "lost"

\* C33 (as claimed): load_gc_crashdump stores the context pointer of a thread
\* record at an index below the length of contexts, or the image is rejected:
\* it is never past the record's preamble with an index of ContextsCapacity or
\* more, and has stored nothing past the end of the array.
C33_ContextIndexInBounds ==
    /\ ld_pc \in {"l_control_stack", "l_binding_stack", "l_tls", "l_scan"} =>
          ld_i < ContextsCapacity
    /\ ~ ld_overrun

\* C34 (as claimed): when save_gc_crashdump has returned with every write
\* complete, whatever was at the pathname before, the file is exactly the
\* cells this capture wrote, the trailing signature its last ones, and
\* load_gc_crashdump, once it has come to the trailing signature of that file,
\* finds it there with the end of the file after it.
C34_FileIsThisCapture ==
    (pc = "done" /\ ~ short_write) =>
        /\ Len(file) = wpos
        /\ SubSeq(file, wpos - Len(TrailingSignature) + 1, wpos) = TrailingSignature
        /\ (tamper = "none" /\ ld_pc = "l_trailer") =>
              /\ read_data(Len(TrailingSignature)) = TrailingSignature
              /\ ld_pos + Len(TrailingSignature) = Len(image)

\* C35 (as claimed): two executions of save_gc_crashdump on the same heap and
\* thread state, every write complete, leave the same file cell for cell.
C35_CaptureDeterministic ==
    (first_capture # <<>> /\ pc = "unsuspend" /\ ~ short_write) =>
        file = first_capture[1]

\* The file offset of thread record n of a capture whose writes were complete.
ThreadRecordOffset(n) == HeapSectionOffset.threads + ThreadRecordCells(n - 1)

\* The thread records of the file whose preamble says there is no register
\* snapshot.
RecordsWithoutContext ==
    {n \in 1..Len(H.threads) : TP_has_context(SubSeq(file, ThreadRecordOffset(n) + 1,
                                   ThreadRecordOffset(n) + ThreadPreambleCells)) = 0}

\* C36: the capture ends with _exit(1) at the first thread that is not the
\* capturing thread and has no interrupt context: no record is under way for
\* such a thread, and at the exit the file ends with the record before it,
\* without trailing signature. A capture that came to its end with every write
\* complete left at most one record without a register snapshot.
C36_ExitAtThreadWithoutContext ==
    /\ pc \in {"w_context", "w_control_stack", "w_binding_stack", "w_tls"} =>
          (th_i = Self \/ ici_of(threads[th_i]) # 0)
    /\ pc = "exited" =>
          /\ th_i # Self
          /\ ici_of(threads[th_i]) = 0
          /\ \A t \in 1..(th_i - 1) : ici_of(threads[t]) # 0
          /\ ~ short_write => /\ Len(file) = ThreadRecordOffset(th_i)
                              /\ wpos = Len(file)
    /\ (pc \in {"unsuspend", "done"} /\ ~ short_write) =>
          /\ Len(file) = ThreadRecordOffset(Len(H.threads) + 1) + Len(TrailingSignature)
          /\ Cardinality(RecordsWithoutContext) <= 1

\* C36 witness: the process has exited at its second thread, after the record
\* of the first.
C36_Witness ==
    /\ pc = "exited"
    /\ th_i = 2
    /\ ~ short_write
    /\ Len(file) = ThreadRecordOffset(2)

====
